---------------------------- MODULE Spec2Model ----------------------------
(***************************************************************************)
(* State-machine model of the zen-zen simulation engine.                   *)
(*                                                                         *)
(* The repository ships two builds of GameEngineService under the same     *)
(* injection token: the HarmonicCore engine (game-engine.service.new.ts,   *)
(* together with HarmonicSystemService) and the older Player/Obstacle      *)
(* engine (game-engine.service.ts).  The variable `build` records which    *)
(* of the two is deployed; it never changes.                               *)
(*                                                                         *)
(* Numbers are fixed point.  Units:                                        *)
(*   time                ms                                                *)
(*   energy, score       1/1000                                            *)
(*   positions, radii    1/100 px                                          *)
(*   core velocity       1/100 px per tick                                 *)
(*   entity velocity     1/100 px per second                               *)
(*   rates               1/1000 per second                                 *)
(*   friction            1/100                                             *)
(* Products are truncated toward zero.  The IEEE value NaN is the          *)
(* distinguished number NaN below: every arithmetic helper propagates it   *)
(* and every comparison with it is false.                                  *)
(*                                                                         *)
(* Fields that only drive rendering (rotation, opacity, colour, shape)     *)
(* are left out: no guard or event of the engine reads them.               *)
(***************************************************************************)
EXTENDS Integers, Sequences, FiniteSets, TLC

(***************************************************************************)
(* Bounds of the exploration.                                              *)
(***************************************************************************)
MaxSteps == 4

(***************************************************************************)
(* Arithmetic helpers.                                                     *)
(***************************************************************************)
NaN == -1000000007

IsNaN(a) == a = NaN

Abs(a) == IF a < 0 THEN -a ELSE a

Max(a, b) == IF a > b THEN a ELSE b

Min(a, b) == IF a < b THEN a ELSE b

\* Division truncating toward zero, as the fixed-point image of a float product.
TruncDiv(a, b) == IF a >= 0 THEN a \div b ELSE -((-a) \div b)

FAdd(a, b) == IF IsNaN(a) \/ IsNaN(b) THEN NaN ELSE a + b

FScale(a, num, den) == IF IsNaN(a) THEN NaN ELSE TruncDiv(a * num, den)

FAbs(a) == IF IsNaN(a) THEN NaN ELSE Abs(a)

FLess(a, b) == ~IsNaN(a) /\ ~IsNaN(b) /\ a < b

\* x / y of two floats that are whole numbers, scaled by `scale`; 0/0 is NaN.
FQuot(x, y, scale) ==
    IF IsNaN(x) \/ IsNaN(y) THEN NaN
    ELSE IF y = 0 THEN NaN
    ELSE TruncDiv(x * scale, y)

RECURSIVE IsqrtIter(_, _)
IsqrtIter(n, r) ==
    CHOOSE root \in { IF next >= r THEN r ELSE IsqrtIter(n, next) :
                         next \in { (r + n \div r) \div 2 } } : TRUE

\* floor(sqrt(n)) for n >= 0
Isqrt(n) == IF n <= 0 THEN 0 ELSE IsqrtIter(n, n)

(***************************************************************************)
(* Enumerations.                                                           *)
(***************************************************************************)
MENU == "menu"
PLAYING == "playing"
PAUSED == "paused"
GAME_OVER == "gameOver"
LOADING == "loading"
VICTORY == "victory"
TUTORIAL == "tutorial"

\* GameState of the HarmonicCore build
GameStates == {MENU, PLAYING, PAUSED, GAME_OVER, LOADING, VICTORY, TUTORIAL}

\* GameState of the Player/Obstacle build
LegacyGameStates == {MENU, PLAYING, PAUSED, GAME_OVER, LOADING, VICTORY}

GAME_STARTED == "gameStarted"
GAME_PAUSED == "gamePaused"
GAME_RESUMED == "gameResumed"
GAME_ENDED == "gameEnded"
ENERGY_DEPLETED == "energyDepleted"
CORE_COLLISION == "coreCollision"
POWERUP_COLLECTED == "powerupCollected"
ENERGY_BALANCED == "energyBalanced"
RESONATOR_CONNECTED == "resonatorConnected"
PATTERN_COMPLETED == "patternCompleted"
HARMONY_INCREASED == "harmonyIncreased"
ZEN_PROGRESS == "zenProgress"

\* EnergyType
EnergyType == {"calm", "vibrant", "intense", "harmonic"}

\* The energyTypes array a spawn draws from
energyTypes == <<"calm", "vibrant", "intense">>

(***************************************************************************)
(* Configuration of the HarmonicCore engine.                               *)
(***************************************************************************)
createDefaultGameConfig ==
    [ mode |-> "harmony",
      gravity |-> 0, friction |-> 98, maxSpeed |-> 500, impulseForce |-> 50,
      dissonanceRate |-> 300, amplifierRate |-> 150, patternInterval |-> 20000,
      maxDissonances |-> 5, maxAmplifiers |-> 3, initialResonators |-> 5,
      width |-> 55000, height |-> 55000,
      decayRate |-> 100 ]

createHarmonyConfig ==
    [ createDefaultGameConfig EXCEPT
        !.mode = "harmony", !.gravity = 0, !.friction = 99,
        !.dissonanceRate = 100, !.amplifierRate = 200, !.decayRate = 50 ]

createResonanceConfig ==
    [ createDefaultGameConfig EXCEPT
        !.mode = "resonance", !.patternInterval = 15000,
        !.initialResonators = 8, !.decayRate = 150 ]

createBalanceConfig ==
    [ createDefaultGameConfig EXCEPT
        !.mode = "balance", !.decayRate = 200, !.dissonanceRate = 400 ]

\* The configurations a start command is given here: none (the default), or
\* the configuration of startBalanceGame.
ConfigOverrides == { createDefaultGameConfig, createBalanceConfig }

(***************************************************************************)
(* Entities.                                                               *)
(***************************************************************************)
createHarmonicCore(x, y) ==
    [ px |-> x, py |-> y, vx |-> 0, vy |-> 0,
      radius |-> 2500,
      energy |-> 100000, maxEnergy |-> 100000,
      harmonyLevel |-> 1,
      frequency |-> 1000, amplitude |-> 1000,
      calm |-> 33000, vibrant |-> 33000, intense |-> 34000,
      brightness |-> 1000,
      isActive |-> TRUE,
      activeEffects |-> << >> ]


(***************************************************************************)
(* State.                                                                  *)
(***************************************************************************)
VARIABLES
    build,                \* "harmonic" or "legacy": the deployed engine
    gameState,            \* _gameState
    config,               \* _config
    core,                 \* _harmonicCore
    dissonances,          \* _dissonances
    amplifiers,           \* _amplifiers
    score,                \* _score
    harmonicPatterns,     \* _harmonicPatterns (resonator-id sets, in order)
    dissonanceSpawnTimer,
    amplifierSpawnTimer,
    patternCheckTimer,
    coreHitCooldown,
    deltaTime,            \* _deltaTime
    loopRunning,          \* gameLoopInterval is set (HarmonicCore engine)
    effectSeen,           \* the value of isPlaying the constructor's effect ran with last
    timeouts,             \* pending setTimeout reversals of amplifier effects
    nextId,               \* source of entity identifiers
    player,               \* _player (Player/Obstacle engine)
    obstacles,            \* _obstacles
    powerUps,             \* _powerUps
    gameLoopInterval,     \* handle of the last requested animation frame, 0 when undefined
    pendingFrames,        \* handles of the animation frames requested and not yet run
    harmonicWaves,        \* _harmonicWaves (HarmonicSystemService)
    resonators,           \* _resonators
    connections,          \* _connections
    patterns,             \* _patterns
    emitted,              \* events emitted by the last operation, in order
    gameLog,              \* per event type, emissions since the last accepted start
    op,                   \* the operation invoked last, with its argument
    emitting,             \* the event whose subscribers a suspended tick is running,
                          \* with the core position checkCollisions read on entry
    nSteps                \* accepted starts, advancing ticks, impulses and waves still allowed

\* No tick is suspended in emitGameEvent
noEmission == [event |-> "none", px |-> 0, py |-> 0, radius |-> 0]

\* State of the HarmonicCore engine only
harmonicVars ==
    << core, dissonances, amplifiers, score, harmonicPatterns,
       dissonanceSpawnTimer, amplifierSpawnTimer, patternCheckTimer,
       coreHitCooldown, loopRunning, timeouts, nextId >>

\* State of the Player/Obstacle engine only
legacyVars == << player, obstacles, powerUps, gameLoopInterval, pendingFrames >>

\* State of HarmonicSystemService
systemVars == << harmonicWaves, resonators, connections, patterns >>

engineVars == << gameState, config, deltaTime, harmonicVars, legacyVars >>

boundVars == << nSteps >>

vars == << build, engineVars, systemVars, emitted, gameLog, op, emitting, effectSeen,
           boundVars >>

TrackedEvents ==
    { GAME_STARTED, GAME_ENDED, ENERGY_DEPLETED, CORE_COLLISION, POWERUP_COLLECTED }

RECURSIVE CountIn(_, _)
CountIn(evs, e) ==
    IF evs = << >> THEN 0
    ELSE (IF Head(evs) = e THEN 1 ELSE 0) + CountIn(Tail(evs), e)

\* emitGameEvent: the events go to the subscribers in emission order.
\* The log restarts at (and includes) the last GAME_STARTED; a count of 2
\* stands for "more than once".
RECURSIVE LogAll(_, _)
LogAll(log, evs) ==
    IF evs = << >> THEN log
    ELSE LET e == Head(evs)
             l1 == IF e = GAME_STARTED
                   THEN [t \in TrackedEvents |-> IF t = GAME_STARTED THEN 1 ELSE 0]
                   ELSE IF e \in TrackedEvents
                   THEN [log EXCEPT ![e] = Min(2, @ + 1)]
                   ELSE log
         IN  LogAll(l1, Tail(evs))

emitGameEvent(evs) ==
    /\ emitted' = evs
    /\ gameLog' = LogAll(gameLog, evs)

isPlaying == gameState = PLAYING

isPaused == gameState = PAUSED

(***************************************************************************)
(* HarmonicCore engine: construction and lifecycle commands.               *)
(***************************************************************************)
\* constructor -> initializeGame
initializeGame ==
    /\ core = createHarmonicCore(27500, 27500)
    /\ dissonances = << >>
    /\ amplifiers = << >>
    /\ harmonicPatterns = << >>
    /\ gameState = MENU
    /\ score = 0
    /\ config = createDefaultGameConfig
    /\ dissonanceSpawnTimer = 0
    /\ amplifierSpawnTimer = 0
    /\ patternCheckTimer = 0
    /\ coreHitCooldown = 0
    /\ deltaTime = 0
    /\ loopRunning = FALSE
    /\ effectSeen = FALSE
    /\ timeouts = << >>
    /\ nextId = 1
    /\ emitted = << GAME_STARTED >>
    /\ gameLog = LogAll([t \in TrackedEvents |-> 0], << GAME_STARTED >>)

\* startGame does not clear the setTimeout callbacks an earlier game left
\* pending: they stay queued.  The field stale records, for the properties,
\* that a callback was scheduled before the last accepted start.
outlived(ts) == [i \in 1..Len(ts) |-> [ts[i] EXCEPT !.stale = TRUE]]

\* A start that is never refused
startNeverRejected(gs) == FALSE

\* The guard of startGame: the command is refused in game state gs
startRejected(gs) == gs = PLAYING

\* startGame(configOverrides)
startGame(overrides) ==
    /\ build = "harmonic"
    /\ UNCHANGED << legacyVars, systemVars >>
    /\ op' = [name |-> "startGame", arg |-> "none"]
    /\ IF startRejected(gameState)
       THEN /\ UNCHANGED << engineVars, gameLog, boundVars >>
            /\ emitted' = << >>
       ELSE /\ nSteps > 0
            /\ nSteps' = nSteps - 1
            /\ config' = overrides
            /\ core' = createHarmonicCore(TruncDiv(overrides.width, 2),
                                          TruncDiv(overrides.height, 2))
            /\ dissonances' = << >>
            /\ amplifiers' = << >>
            /\ harmonicPatterns' = << >>
            /\ score' = 0
            /\ gameState' = PLAYING
            /\ emitGameEvent(<< GAME_STARTED >>)
            /\ UNCHANGED << dissonanceSpawnTimer, amplifierSpawnTimer,
                            patternCheckTimer, coreHitCooldown, deltaTime,
                            loopRunning, nextId >>
            /\ timeouts' = outlived(timeouts)
    /\ UNCHANGED << build, effectSeen, emitting >>

\* togglePause
togglePause ==
    /\ build = "harmonic"
    /\ UNCHANGED << legacyVars, systemVars >>
    /\ op' = [name |-> "togglePause", arg |-> "none"]
    /\ IF gameState = PLAYING
       THEN /\ gameState' = PAUSED
            /\ emitGameEvent(<< GAME_PAUSED >>)
       ELSE IF gameState = PAUSED
       THEN /\ gameState' = PLAYING
            /\ emitGameEvent(<< GAME_RESUMED >>)
       ELSE /\ UNCHANGED gameState
            /\ emitGameEvent(<< >>)
    /\ UNCHANGED << build, effectSeen, emitting, config, core, dissonances, amplifiers, score,
                    harmonicPatterns, dissonanceSpawnTimer, amplifierSpawnTimer,
                    patternCheckTimer, coreHitCooldown, deltaTime, loopRunning,
                    timeouts, nextId, boundVars >>

\* The state and events endGame produces from state gs.
endGameState(gs) == IF gs = PLAYING \/ gs = PAUSED THEN GAME_OVER ELSE gs

endGameEvents(gs) == IF gs = PLAYING \/ gs = PAUSED THEN << GAME_ENDED >> ELSE << >>

\* endGame
endGame ==
    /\ build = "harmonic"
    /\ UNCHANGED << legacyVars, systemVars >>
    /\ op' = [name |-> "endGame", arg |-> "none"]
    /\ gameState' = endGameState(gameState)
    /\ emitGameEvent(endGameEvents(gameState))
    /\ UNCHANGED << build, effectSeen, emitting, config, core, dissonances, amplifiers, score,
                    harmonicPatterns, dissonanceSpawnTimer, amplifierSpawnTimer,
                    patternCheckTimer, coreHitCooldown, deltaTime, loopRunning,
                    timeouts, nextId, boundVars >>

\* The effect of the constructor: it starts the interval when isPlaying has
\* become true and clears it when isPlaying has become false.
\* ngOnDestroy: stopGameLoop; the state signal is not written, so the effect
\* does not run again
ngOnDestroy ==
    /\ build = "harmonic"
    /\ UNCHANGED << legacyVars, systemVars >>
    /\ op' = [name |-> "ngOnDestroy", arg |-> "none"]
    /\ loopRunning' = FALSE
    /\ emitGameEvent(<< >>)
    /\ UNCHANGED << build, effectSeen, emitting, gameState, config, core, dissonances,
                    amplifiers, score, harmonicPatterns, dissonanceSpawnTimer,
                    amplifierSpawnTimer, patternCheckTimer, coreHitCooldown,
                    deltaTime, timeouts, nextId, boundVars >>

\* Points of connectResonators, in 1/1000
connectionScore == 5000

\* connectResonators(connection)
connectResonators ==
    /\ build = "harmonic"
    /\ UNCHANGED << legacyVars, systemVars >>
    /\ nSteps > 0
    /\ nSteps' = nSteps - 1
    /\ op' = [name |-> "connectResonators", arg |-> "none"]
    /\ score' = FAdd(score, connectionScore)
    /\ emitGameEvent(<< RESONATOR_CONNECTED >>)
    /\ UNCHANGED << build, effectSeen, emitting, gameState, config, core, dissonances,
                    amplifiers, harmonicPatterns, dissonanceSpawnTimer,
                    amplifierSpawnTimer, patternCheckTimer, coreHitCooldown,
                    deltaTime, loopRunning, timeouts, nextId >>

loopEffect ==
    /\ build = "harmonic"
    /\ UNCHANGED << legacyVars, systemVars >>
    /\ effectSeen # isPlaying
    /\ op' = [name |-> "loopEffect", arg |-> "none"]
    /\ effectSeen' = isPlaying
    /\ loopRunning' = isPlaying
    /\ emitGameEvent(<< >>)
    /\ UNCHANGED << build, emitting, gameState, config, core, dissonances, amplifiers,
                    score, harmonicPatterns, dissonanceSpawnTimer,
                    amplifierSpawnTimer, patternCheckTimer, coreHitCooldown,
                    deltaTime, timeouts, nextId, boundVars >>


(***************************************************************************)
(* Sequence helpers (map / filter of the entity collections).              *)
(***************************************************************************)
SeqFilter(seq, Keep(_)) == SelectSeq(seq, Keep)

SeqMap(seq, F(_)) == [i \in 1..Len(seq) |-> F(seq[i])]

\* Index of the first element satisfying Test, 0 when there is none.
FirstIndex(seq, Test(_)) ==
    IF \E i \in 1..Len(seq) : Test(seq[i])
    THEN CHOOSE i \in 1..Len(seq) :
            Test(seq[i]) /\ \A j \in 1..(i - 1) : ~Test(seq[j])
    ELSE 0

\* sqrt(dx*dx + dy*dy) < limit, for a limit > 0, without forming squares of
\* offsets that already exceed the limit.
DistanceLess(dx, dy, limit) ==
    /\ ~IsNaN(dx) /\ ~IsNaN(dy)
    /\ Abs(dx) < limit
    /\ Abs(dy) < limit
    /\ dx * dx + dy * dy < limit * limit

(***************************************************************************)
(* Outcomes of Math.random(), in 1/1000.  A draw lists the outcomes one    *)
(* spawn consumes, in the order the code consumes them.                    *)
(***************************************************************************)
DissonanceTypes == << "static", "moving", "pulsating", "disruptive" >>

DissonanceDraws ==
    { \* static, at (495, 275) px, radius 15, disruption 10
      [ rx |-> 900, ry |-> 500, rtype |-> 0, renergy |-> 0, rradius |-> 0,
        rvx |-> 500, rvy |-> 500, rdisr |-> 0 ],
      \* moving left at 25 px/s from the same place, radius 15, disruption 19
      [ rx |-> 900, ry |-> 500, rtype |-> 250, renergy |-> 400, rradius |-> 0,
        rvx |-> 0, rvy |-> 500, rdisr |-> 999 ] }

AmplifierTypes ==
    << "energy", "frequency", "amplitude", "resonance",
       "balance", "clarity", "expansion", "stability" >>

AmplifierProbabilities == << 250, 150, 150, 100, 100, 100, 100, 50 >>

AmplifierDraws ==
    { [ rx |-> 500, ry |-> 500, rtype |-> 0, renergy |-> 0 ],      \* energy, on the centre
      [ rx |-> 500, ry |-> 500, rtype |-> 300, renergy |-> 400 ] } \* frequency, on the centre

\* Math.floor(Math.random() * n) for a 1/1000 outcome r
RandomIndex(r, n) == (r * n) \div 1000

(***************************************************************************)
(* Dissonances.                                                            *)
(***************************************************************************)
minDistance == 10000

lifeTimeBase == 20000

\* createDissonance filled by spawnDissonance from a draw
createDissonance(id, draw, cfg) ==
    LET type == DissonanceTypes[RandomIndex(draw.rtype, 4) + 1]
    IN  [ id |-> id,
          type |-> type,
          px |-> TruncDiv(draw.rx * cfg.width, 1000),
          py |-> TruncDiv(draw.ry * cfg.height, 1000),
          hasVelocity |-> (type = "moving"),
          vx |-> IF type = "moving" THEN (draw.rvx - 500) * 5 ELSE 0,
          vy |-> IF type = "moving" THEN (draw.rvy - 500) * 5 ELSE 0,
          radius |-> 1500 + draw.rradius,
          countersEnergy |-> energyTypes[RandomIndex(draw.renergy, 3) + 1],
          disruptionLevel |-> (10 + RandomIndex(draw.rdisr, 10)) * 1000,
          age |-> 0,
          lifeTime |-> lifeTimeBase,
          isActive |-> TRUE ]

\* The do-while of spawnDissonance keeps a position only when it is at least
\* minDistance from the core.
positionAccepted(draw, c, cfg) ==
    ~DistanceLess(TruncDiv(draw.rx * cfg.width, 1000) - c.px,
                  TruncDiv(draw.ry * cfg.height, 1000) - c.py,
                  minDistance)

\* updateDissonance
updateDissonance(d, dt, cfg) ==
    LET age == d.age + dt
        isActive == age < d.lifeTime
        moves == d.type = "moving" /\ d.hasVelocity
        x0 == d.px + TruncDiv(d.vx * dt, 1000)
        y0 == d.py + TruncDiv(d.vy * dt, 1000)
        outX == x0 - d.radius < 0 \/ x0 + d.radius > cfg.width
        outY == y0 - d.radius < 0 \/ y0 + d.radius > cfg.height
    IN  IF ~moves
        THEN [d EXCEPT !.age = age, !.isActive = isActive]
        ELSE [d EXCEPT
                !.age = age,
                !.isActive = isActive,
                !.vx = IF outX THEN -d.vx ELSE d.vx,
                !.vy = IF outY THEN -d.vy ELSE d.vy,
                !.px = IF outX THEN Max(d.radius, Min(cfg.width - d.radius, x0)) ELSE x0,
                !.py = IF outY THEN Max(d.radius, Min(cfg.height - d.radius, y0)) ELSE y0]

\* updateDissonances
updateDissonances(ds, dt, cfg) ==
    LET Upd(d) == updateDissonance(d, dt, cfg)
        Active(d) == d.isActive
    IN  SeqFilter(SeqMap(ds, Upd), Active)

(***************************************************************************)
(* Amplifiers.                                                             *)
(***************************************************************************)
RECURSIVE selectAmplifierType(_, _, _)
\* the cumulative-sum loop of spawnAmplifier, from index i with sum acc
selectAmplifierType(random, i, acc) ==
    IF i > Len(AmplifierTypes) THEN AmplifierTypes[1]
    ELSE IF random <= acc + AmplifierProbabilities[i] THEN AmplifierTypes[i]
    ELSE selectAmplifierType(random, i + 1, acc + AmplifierProbabilities[i])

\* valueMap of createHarmonyAmplifier; energy in 1/1000, the others in 1/1000
amplifierValue(type) ==
    CASE type = "energy" -> 25000
      [] type = "frequency" -> 500
      [] type = "amplitude" -> 300
      [] type = "resonance" -> 400
      [] type = "balance" -> 600
      [] type = "clarity" -> 500
      [] type = "expansion" -> 300
      [] type = "stability" -> 700

createHarmonyAmplifier(id, draw, cfg) ==
    LET type == selectAmplifierType(draw.rtype, 1, 0)
    IN  [ id |-> id,
          type |-> type,
          px |-> TruncDiv(draw.rx * cfg.width, 1000),
          py |-> TruncDiv(draw.ry * cfg.height, 1000),
          value |-> amplifierValue(type),
          radius |-> 1500,
          energyType |-> energyTypes[RandomIndex(draw.renergy, 3) + 1],
          age |-> 0,
          lifeTime |-> 10000,
          duration |-> 5000,
          isActive |-> TRUE ]

\* updateAmplifiers whose filter looks at the age only
updateAmplifiersByAge(as, dt) ==
    LET Upd(a) == [a EXCEPT !.age = a.age + dt]
        Keep(a) == a.age < a.lifeTime
    IN  SeqFilter(SeqMap(as, Upd), Keep)

\* updateAmplifiers / updateAmplifier
updateAmplifiers(as, dt) ==
    LET Upd(a) == [a EXCEPT !.age = a.age + dt]
        Keep(a) == a.isActive /\ a.age < a.lifeTime
    IN  SeqFilter(SeqMap(as, Upd), Keep)


(***************************************************************************)
(* One tick of the HarmonicCore engine.  The steps of update() run in      *)
(* order on a record st of the fields they read and write:                 *)
(*   gameState, core, dissonances, amplifiers, score, cooldown,            *)
(*   dTimer, aTimer, pTimer, timeouts, nextId, events                      *)
(***************************************************************************)
collisionCooldown == 600

impulseEnergyCost == 2000

waveEnergyCost == 5000

knockbackForce == 200

\* endGame() called inside a step
endGameIn(st) ==
    [st EXCEPT !.gameState = endGameState(st.gameState),
               !.events = st.events \o endGameEvents(st.gameState)]

\* A decay at half the configured rate
decayedEnergyHalved(energy, cfg, dt) ==
    Max(0, energy - TruncDiv(cfg.decayRate * dt, 2000))

\* Natural decay of updateHarmonicCore: the energy after a tick of dt ms
decayedEnergy(energy, cfg, dt) ==
    Max(0, energy - TruncDiv(cfg.decayRate * dt, 1000))

\* The test of updateHarmonicCore that raises ENERGY_DEPLETED
energyDepleted(oldEnergy, newEnergy) == newEnergy <= 0 /\ oldEnergy > 0

\* The speed limit of updateHarmonicCore: component v of the velocity (v, w)
\* after it is scaled down to maxSpeed
limitSpeed(v, w, maxSpeed) ==
    IF ~IsNaN(v) /\ ~IsNaN(w) /\ v * v + w * w > maxSpeed * maxSpeed
    THEN TruncDiv(v * maxSpeed, Isqrt(v * v + w * w))
    ELSE v

\* The wall test of updateHarmonicCore on one axis for the new position p:
\* "low" at the near wall, "high" at the far wall of a canvas of that extent
wallHit(p, radius, extent) ==
    IF FLess(FAdd(p, -radius), 0) THEN "low"
    ELSE IF FLess(extent, FAdd(p, radius)) THEN "high"
    ELSE "none"

\* Position and velocity on one axis after the wall test
bouncedPosition(p, radius, extent, wall) ==
    IF wall = "low" THEN radius
    ELSE IF wall = "high" THEN extent - radius ELSE p

bouncedVelocity(v, wall) ==
    IF wall = "low" THEN TruncDiv(Abs(v), 2)
    ELSE IF wall = "high" THEN -TruncDiv(Abs(v), 2) ELSE v

\* The core updateHarmonicCore writes, from the limited velocity (vx, vy)
movedCore(c, vx, vy, cfg, newEnergy) ==
    LET x0 == FAdd(c.px, vx)
        y0 == FAdd(c.py, vy)
        wallX == wallHit(x0, c.radius, cfg.width)
        wallY == wallHit(y0, c.radius, cfg.height)
    IN  [c EXCEPT
           !.px = bouncedPosition(x0, c.radius, cfg.width, wallX),
           !.py = bouncedPosition(y0, c.radius, cfg.height, wallY),
           !.vx = bouncedVelocity(vx, wallX),
           !.vy = bouncedVelocity(vy, wallY),
           !.energy = newEnergy,
           !.brightness = 300 + TruncDiv(newEnergy * 700, c.maxEnergy),
           !.isActive = newEnergy > 0]

\* The end of updateHarmonicCore: the depletion test on the state st1 it wrote
announceDepletion(st1, depleted) ==
    IF depleted
    THEN endGameIn([st1 EXCEPT !.events = @ \o << ENERGY_DEPLETED >>])
    ELSE st1

\* updateHarmonicCore
updateHarmonicCore(st, cfg, dt) ==
    LET c == st.core
        vy0 == IF cfg.gravity > 0
               THEN FAdd(c.vy, TruncDiv(cfg.gravity * dt, 1000))
               ELSE c.vy
        vx1 == FScale(c.vx, cfg.friction, 100)
        vy1 == FScale(vy0, cfg.friction, 100)
        newEnergy == decayedEnergy(c.energy, cfg, dt)
    IN  announceDepletion(
            [st EXCEPT !.core = movedCore(c, limitSpeed(vx1, vy1, cfg.maxSpeed),
                                          limitSpeed(vy1, vx1, cfg.maxSpeed),
                                          cfg, newEnergy)],
            energyDepleted(c.energy, newEnergy))

\* A dissonance hit that subtracts the damage without the floor at 0
damagedEnergyUnfloored(energy, disruptionLevel) == energy - disruptionLevel

\* The energy a dissonance hit leaves
damagedEnergy(energy, disruptionLevel) == Max(0, energy - disruptionLevel)

\* handleDissonanceCollision
handleDissonanceCollision(st, d) ==
    LET c == st.core
        dx == FAdd(c.px, -d.px)
        dy == FAdd(c.py, -d.py)
        distance == IF IsNaN(dx) \/ IsNaN(dy) THEN NaN
                    ELSE Isqrt(dx * dx + dy * dy)
        kx == IF IsNaN(distance) \/ distance = 0 THEN NaN
              ELSE TruncDiv(dx * knockbackForce, distance)
        ky == IF IsNaN(distance) \/ distance = 0 THEN NaN
              ELSE TruncDiv(dy * knockbackForce, distance)
        Hit(e) == IF e.id = d.id THEN [e EXCEPT !.isActive = FALSE] ELSE e
    IN  [st EXCEPT
            !.core = [c EXCEPT !.energy = damagedEnergy(c.energy, d.disruptionLevel),
                               !.vx = FAdd(c.vx, kx),
                               !.vy = FAdd(c.vy, ky)],
            !.dissonances = SeqMap(st.dissonances, Hit),
            !.cooldown = collisionCooldown,
            !.events = st.events \o << CORE_COLLISION >>]

\* An energy amplifier that adds its value without the cap
amplifiedEnergyUncapped(energy, maxEnergy, value) == energy + value

\* An energy amplifier that refills the core whatever its value
amplifiedEnergyRefill(energy, maxEnergy, value) == maxEnergy

\* The energy an energy amplifier leaves
amplifiedEnergy(energy, maxEnergy, value) == Min(maxEnergy, energy + value)

\* applyAmplifierEffect
applyAmplifierEffect(st, a) ==
    LET c == st.core
        total == c.calm + c.vibrant + c.intense
        ideal == TruncDiv(total, 3)
        Pull(cur) == TruncDiv(cur * (1000 - a.value), 1000)
                     + TruncDiv(ideal * a.value, 1000)
    IN  CASE a.type = "energy" ->
               [st EXCEPT !.core.energy = amplifiedEnergy(c.energy, c.maxEnergy, a.value)]
          [] a.type = "frequency" ->
               [st EXCEPT
                  !.core.frequency = c.frequency + a.value,
                  !.core.activeEffects = Append(c.activeEffects, "frequency_boost"),
                  !.timeouts = Append(st.timeouts,
                      [effect |-> "frequency_boost", value |-> a.value,
                       remaining |-> a.duration, stale |-> FALSE])]
          [] a.type = "amplitude" ->
               [st EXCEPT
                  !.core.amplitude = c.amplitude + a.value,
                  !.core.activeEffects = Append(c.activeEffects, "amplitude_boost"),
                  !.timeouts = Append(st.timeouts,
                      [effect |-> "amplitude_boost", value |-> a.value,
                       remaining |-> a.duration, stale |-> FALSE])]
          [] a.type = "balance" ->
               [st EXCEPT
                  !.core.calm = Pull(c.calm),
                  !.core.vibrant = Pull(c.vibrant),
                  !.core.intense = Pull(c.intense),
                  !.core.activeEffects = Append(c.activeEffects, "balance_boost"),
                  !.events = st.events \o << ENERGY_BALANCED >>]
          [] OTHER ->
               [st EXCEPT !.score = FAdd(st.score, 10000)]

\* handleAmplifierCollision
handleAmplifierCollision(st, a) ==
    LET st1 == applyAmplifierEffect(st, a)
        Take(e) == IF e.id = a.id THEN [e EXCEPT !.isActive = FALSE] ELSE e
    IN  [st1 EXCEPT
            !.amplifiers = SeqMap(st1.amplifiers, Take),
            !.events = st1.events \o << POWERUP_COLLECTED >>]

\* checkCollisions, first loop: the first active dissonance that overlaps c0
dissonanceLoop(st, c0) ==
    LET HitsD(d) == d.isActive
                    /\ DistanceLess(FAdd(d.px, -c0.px), FAdd(d.py, -c0.py),
                                    c0.radius + d.radius)
        di == FirstIndex(st.dissonances, HitsD)
    IN  IF di = 0 THEN st
        ELSE handleDissonanceCollision(st, st.dissonances[di])

\* checkCollisions, second loop: the first active amplifier that overlaps c0
amplifierLoop(st, c0) ==
    LET HitsA(a) == a.isActive
                    /\ DistanceLess(FAdd(a.px, -c0.px), FAdd(a.py, -c0.py),
                                    c0.radius + a.radius)
        ai == FirstIndex(st.amplifiers, HitsA)
    IN  IF ai = 0 THEN st
        ELSE handleAmplifierCollision(st, st.amplifiers[ai])

\* checkCollisions; c0 is the core as read on entry, dtSignal is _deltaTime
checkCollisions(st, dtSignal) ==
    IF st.cooldown > 0
    THEN [st EXCEPT !.cooldown = st.cooldown - dtSignal]
    ELSE amplifierLoop(dissonanceLoop(st, st.core), st.core)

\* timer >= 1 / rate, with the timer in ms and the rate in 1/1000 per second
intervalElapsed(timer, rate) == timer * rate >= 1000000

\* A cap that admits one entity too many
belowCapInclusive(count, cap) == count <= cap

\* The cap test of updateSpawnTimers: collection length < configured maximum
belowCap(count, cap) == count < cap

\* updateSpawnTimers, with the random outcomes a spawn would consume
updateSpawnTimers(st, cfg, dt, ddraw, adraw) ==
    LET dTimer == st.dTimer + dt
        spawnD == /\ intervalElapsed(dTimer, cfg.dissonanceRate)
                  /\ belowCap(Len(st.dissonances), cfg.maxDissonances)
        st1 == IF spawnD
               THEN [st EXCEPT
                       !.dissonances = Append(st.dissonances,
                                              createDissonance(st.nextId, ddraw, cfg)),
                       !.nextId = st.nextId + 1,
                       !.dTimer = 0]
               ELSE [st EXCEPT !.dTimer = dTimer]
        aTimer == st.aTimer + dt
        spawnA == /\ intervalElapsed(aTimer, cfg.amplifierRate)
                  /\ belowCap(Len(st1.amplifiers), cfg.maxAmplifiers)
        st2 == IF spawnA
               THEN [st1 EXCEPT
                       !.amplifiers = Append(st1.amplifiers,
                                             createHarmonyAmplifier(st1.nextId, adraw, cfg)),
                       !.nextId = st1.nextId + 1,
                       !.aTimer = 0]
               ELSE [st1 EXCEPT !.aTimer = aTimer]
        pTimer == st.pTimer + dt
    IN  [st2 EXCEPT !.pTimer = IF pTimer >= cfg.patternInterval THEN 0 ELSE pTimer]

\* Whether the tick that starts in st spawns a dissonance (its position is
\* then drawn): the count that is compared is the one left by updateDissonances.
spawnsDissonance(st, cfg, dt) ==
    /\ intervalElapsed(st.dTimer + dt, cfg.dissonanceRate)
    /\ belowCap(Len(updateDissonances(st.dissonances, dt, cfg)), cfg.maxDissonances)

\* updateScore
updateScore(st, dt) ==
    LET c == st.core
        timeScore == TruncDiv(dt * c.harmonyLevel, 2)
        total == c.calm + c.vibrant + c.intense
        idealRatio == TruncDiv(total, 3)
        deviation == Abs(c.calm - idealRatio) + Abs(c.vibrant - idealRatio)
                     + Abs(c.intense - idealRatio)
        normalizedDeviation == Min(1000, TruncDiv(deviation * 1000, total))
        balanceMultiplier == 1000 - TruncDiv(normalizedDeviation * 500, 1000)
        finalScore == IF total = 0 THEN NaN
                      ELSE TruncDiv(timeScore * balanceMultiplier, 1000)
    IN  [st EXCEPT !.score = FAdd(st.score, finalScore)]

\* checkGameConditions
checkGameConditions(st) ==
    IF st.core.energy <= 0 /\ st.gameState = PLAYING THEN endGameIn(st) ELSE st

\* update(deltaTime)
update(st, cfg, dt, ddraw, adraw) ==
    LET s1 == updateHarmonicCore(st, cfg, dt)
        s3 == [s1 EXCEPT !.dissonances = updateDissonances(@, dt, cfg),
                         !.amplifiers = updateAmplifiers(@, dt)]
        s4 == checkCollisions(s3, dt)
        s5 == updateSpawnTimers(s4, cfg, dt, ddraw, adraw)
        s6 == updateScore(s5, dt)
    IN  checkGameConditions(s6)


(***************************************************************************)
(* Inputs of the driver and of the player.                                 *)
(***************************************************************************)
\* Frame lengths in ms: a stalled frame and a suspended tab.
Dts == {8000, 490000}

\* Impulse directions: the zero vector, and up-left along (3, 4).
Directions == { << 0, 0 >>, << -3, -4 >> }

\* The record the steps of a tick work on, read from the engine state
tickState ==
    [ gameState |-> gameState, core |-> core, dissonances |-> dissonances,
      amplifiers |-> amplifiers, score |-> score, cooldown |-> coreHitCooldown,
      dTimer |-> dissonanceSpawnTimer, aTimer |-> amplifierSpawnTimer,
      pTimer |-> patternCheckTimer, timeouts |-> timeouts, nextId |-> nextId,
      events |-> << >> ]

\* Wall-clock time t passes for the pending reversals
elapse(ts, t) ==
    [i \in 1..Len(ts) |-> [ts[i] EXCEPT !.remaining = Max(0, ts[i].remaining - t)]]

timeoutDue == timeouts # << >> /\ Head(timeouts).remaining = 0

\* Whether gameLoop runs update() in game state gs
loopAdvances(gs) == gs = PLAYING

\* gameLoop, one firing of the 60 Hz interval, dt ms after the previous frame
gameLoop(dt, ddraw, adraw) ==
    /\ build = "harmonic"
    /\ UNCHANGED << legacyVars, systemVars >>
    /\ loopRunning
    /\ ~timeoutDue
    /\ op' = [name |-> "gameLoop", arg |-> "none"]
    /\ IF ~loopAdvances(gameState)
       THEN /\ emitGameEvent(<< >>)
            /\ UNCHANGED << engineVars, boundVars >>
       ELSE \E st \in { update([tickState EXCEPT !.timeouts = elapse(timeouts, dt)],
                                 config, dt, ddraw, adraw) } :
                /\ nSteps > 0
                /\ spawnsDissonance(tickState, config, dt)
                   => positionAccepted(ddraw, st.core, config)
                /\ nSteps' = nSteps - 1
                /\ deltaTime' = dt
                /\ gameState' = st.gameState
                /\ core' = st.core
                /\ dissonances' = st.dissonances
                /\ amplifiers' = st.amplifiers
                /\ score' = st.score
                /\ coreHitCooldown' = st.cooldown
                /\ dissonanceSpawnTimer' = st.dTimer
                /\ amplifierSpawnTimer' = st.aTimer
                /\ patternCheckTimer' = st.pTimer
                /\ timeouts' = st.timeouts
                /\ nextId' = st.nextId
                /\ emitGameEvent(st.events)
                /\ UNCHANGED << config, harmonicPatterns, loopRunning >>
    /\ UNCHANGED << build, effectSeen, emitting >>

\* update up to the emission of CORE_COLLISION at the end of
\* handleDissonanceCollision: the core, the entities, the first loop of
\* checkCollisions
updateToCoreCollision(st, cfg, dt) ==
    LET s1 == updateHarmonicCore(st, cfg, dt)
        s3 == [s1 EXCEPT !.dissonances = updateDissonances(@, dt, cfg),
                         !.amplifiers = updateAmplifiers(@, dt)]
    IN  [before |-> s3, after |-> dissonanceLoop(s3, s3.core)]

\* update from the return of that emission on: the second loop of
\* checkCollisions over the core c0 read on its entry, then the spawn timers,
\* the score and the end conditions
updateFromCoreCollision(st, c0, cfg, dt, ddraw, adraw) ==
    checkGameConditions(
        updateScore(updateSpawnTimers(amplifierLoop(st, c0), cfg, dt, ddraw, adraw),
                    dt))

\* gameLoop as far as gameEventsSubject.next(CORE_COLLISION): next runs the
\* subscribers before it returns, so the tick is suspended inside the emission
gameLoopEmits(dt) ==
    /\ build = "harmonic"
    /\ UNCHANGED << legacyVars, systemVars >>
    /\ loopRunning
    /\ ~timeoutDue
    /\ emitting.event = "none"
    /\ loopAdvances(gameState)
    /\ nSteps > 0
    /\ op' = [name |-> "gameLoop", arg |-> CORE_COLLISION]
    /\ \E u \in { updateToCoreCollision([tickState EXCEPT !.timeouts = elapse(timeouts, dt)],
                                         config, dt) } :
          \E st \in { u.after } :
            /\ u.before.cooldown <= 0
            /\ CountIn(st.events, CORE_COLLISION) = 1
            /\ emitting' = [event |-> CORE_COLLISION, px |-> u.before.core.px,
                            py |-> u.before.core.py,
                            radius |-> u.before.core.radius]
            /\ nSteps' = nSteps - 1
            /\ deltaTime' = dt
            /\ gameState' = st.gameState
            /\ core' = st.core
            /\ dissonances' = st.dissonances
            /\ amplifiers' = st.amplifiers
            /\ score' = st.score
            /\ coreHitCooldown' = st.cooldown
            /\ timeouts' = st.timeouts
            /\ nextId' = st.nextId
            /\ emitGameEvent(st.events)
    /\ UNCHANGED << build, effectSeen, config, harmonicPatterns, loopRunning,
                    dissonanceSpawnTimer, amplifierSpawnTimer, patternCheckTimer >>

\* The subscribers have returned: the rest of the suspended tick
gameLoopResumes(ddraw, adraw) ==
    /\ build = "harmonic"
    /\ UNCHANGED << legacyVars, systemVars >>
    /\ emitting.event = CORE_COLLISION
    /\ op' = [name |-> "gameLoop", arg |-> "resumed"]
    /\ emitting' = noEmission
    /\ \E st \in { updateFromCoreCollision(tickState, emitting, config,
                                           deltaTime, ddraw, adraw) } :
            /\ intervalElapsed(dissonanceSpawnTimer + deltaTime, config.dissonanceRate)
               /\ Len(dissonances) < config.maxDissonances
               => positionAccepted(ddraw, st.core, config)
            /\ gameState' = st.gameState
            /\ core' = st.core
            /\ dissonances' = st.dissonances
            /\ amplifiers' = st.amplifiers
            /\ score' = st.score
            /\ coreHitCooldown' = st.cooldown
            /\ dissonanceSpawnTimer' = st.dTimer
            /\ amplifierSpawnTimer' = st.aTimer
            /\ patternCheckTimer' = st.pTimer
            /\ timeouts' = st.timeouts
            /\ nextId' = st.nextId
            /\ emitGameEvent(st.events)
    /\ UNCHANGED << build, effectSeen, config, deltaTime, harmonicPatterns, loopRunning, boundVars >>

\* The velocity component an impulse adds: direction component d over the
\* magnitude of (x, y), times impulseForce.
impulseComponent(d, x, y, force) ==
    LET magnitude == Isqrt((x * x + y * y) * 1000000)
    IN  FScale(FQuot(d * 1000, magnitude, 1000), force, 1000)

\* applyImpulse(direction)
applyImpulse(direction) ==
    /\ build = "harmonic"
    /\ UNCHANGED << legacyVars, systemVars >>
    /\ op' = [name |-> "applyImpulse", arg |-> direction]
    /\ IF ~isPlaying
       THEN /\ UNCHANGED << core, nSteps >>
       ELSE /\ nSteps > 0
            /\ nSteps' = nSteps - 1
            /\ core' = [core EXCEPT
                  !.vx = FAdd(core.vx,
                              impulseComponent(direction[1], direction[1], direction[2],
                                               config.impulseForce)),
                  !.vy = FAdd(core.vy,
                              impulseComponent(direction[2], direction[1], direction[2],
                                               config.impulseForce)),
                  !.energy = Max(0, core.energy - impulseEnergyCost)]
    /\ emitGameEvent(<< >>)
    /\ UNCHANGED << build, effectSeen, emitting, gameState, config, dissonances, amplifiers, score,
                    harmonicPatterns, dissonanceSpawnTimer, amplifierSpawnTimer,
                    patternCheckTimer, coreHitCooldown, deltaTime, loopRunning,
                    timeouts, nextId >>

\* A wave that is generated whatever the energy left
waveAcceptedAnyEnergy(gs, energy) == gs = PLAYING

\* Whether generateWave is carried out
waveAccepted(gs, energy) == gs = PLAYING /\ ~(energy < waveEnergyCost)

\* generateWave(energyType)
generateWave(energyType) ==
    /\ build = "harmonic"
    /\ UNCHANGED << legacyVars, systemVars >>
    /\ op' = [name |-> "generateWave", arg |-> "none"]
    /\ IF ~waveAccepted(gameState, core.energy)
       THEN /\ UNCHANGED << core, nSteps >>
            /\ emitGameEvent(<< >>)
       ELSE /\ nSteps > 0
            /\ nSteps' = nSteps - 1
            /\ core' = [core EXCEPT !.energy = core.energy - waveEnergyCost]
            /\ emitGameEvent(<< RESONATOR_CONNECTED >>)
    /\ UNCHANGED << build, effectSeen, emitting, gameState, config, dissonances, amplifiers, score,
                    harmonicPatterns, dissonanceSpawnTimer, amplifierSpawnTimer,
                    patternCheckTimer, coreHitCooldown, deltaTime, loopRunning,
                    timeouts, nextId >>

\* The core after the reversal a timeout of applyAmplifierEffect carries out
reverseEffect(c, t) ==
    LET Other(e) == e # t.effect
    IN  IF t.effect = "frequency_boost"
        THEN [c EXCEPT !.frequency = Max(1000, c.frequency - t.value),
                       !.activeEffects = SeqFilter(c.activeEffects, Other)]
        ELSE [c EXCEPT !.amplitude = Max(1000, c.amplitude - t.value),
                       !.activeEffects = SeqFilter(c.activeEffects, Other)]

\* A setTimeout callback of applyAmplifierEffect runs
fireTimeout ==
    /\ build = "harmonic"
    /\ UNCHANGED << legacyVars, systemVars >>
    /\ timeoutDue
    /\ op' = [name |-> "fireTimeout", arg |-> "none"]
    /\ core' = reverseEffect(core, Head(timeouts))
    /\ timeouts' = Tail(timeouts)
    /\ emitGameEvent(<< >>)
    /\ UNCHANGED << build, effectSeen, emitting, gameState, config, dissonances, amplifiers, score,
                    harmonicPatterns, dissonanceSpawnTimer, amplifierSpawnTimer,
                    patternCheckTimer, coreHitCooldown, deltaTime, loopRunning,
                    nextId, boundVars >>

\* Wall-clock time passes while no frame advances the game: the state is not
\* PLAYING, or no interval is set
timePasses(t) ==
    /\ build = "harmonic"
    /\ UNCHANGED << legacyVars, systemVars >>
    /\ gameState # PLAYING \/ ~loopRunning
    /\ timeouts # << >>
    /\ ~timeoutDue
    /\ op' = [name |-> "timePasses", arg |-> "none"]
    /\ timeouts' = elapse(timeouts, t)
    /\ emitGameEvent(<< >>)
    /\ UNCHANGED << build, effectSeen, emitting, gameState, config, core, dissonances, amplifiers, score,
                    harmonicPatterns, dissonanceSpawnTimer, amplifierSpawnTimer,
                    patternCheckTimer, coreHitCooldown, deltaTime, loopRunning,
                    nextId, boundVars >>


(***************************************************************************)
(* Player/Obstacle engine (game-engine.service.ts).  Velocities are in     *)
(* 1/100 px per second, the gravity in 1/100 px per second squared.        *)
(***************************************************************************)
createDefaultGameConfigLegacy ==
    [ mode |-> "normal",
      gravity |-> 50, friction |-> 98, maxSpeed |-> 800, impulseForce |-> 1200,
      width |-> 80000, height |-> 60000 ]

createMeditationConfig ==
    [ createDefaultGameConfigLegacy EXCEPT
        !.mode = "meditation", !.gravity = 30, !.maxSpeed = 500,
        !.impulseForce = 800 ]

\* The overrides a start command is given here: none, the meditation mode,
\* and a weightless physics on a canvas whose centre is the start position.
LegacyOverrides ==
    { [ mode |-> "normal" ],
      [ mode |-> "meditation" ],
      [ gravity |-> 0, friction |-> 98, maxSpeed |-> 800, impulseForce |-> 1200,
        width |-> 10000, height |-> 60000 ] }

\* { ...current, ...configOverrides }
mergeConfig(current, overrides) ==
    [ f \in DOMAIN current |->
        IF f \in DOMAIN overrides THEN overrides[f] ELSE current[f] ]

\* createPlayer(overrides) = createHarmonicCore(overrides), with the position
\* the overrides give.  The object has isActive and harmonyLevel; it has no
\* level, no isAlive and no zenProgress: updatePlayer adds zenProgress.
createPlayer(x, y) ==
    [ px |-> x, py |-> y, vx |-> 0, vy |-> 0,
      radius |-> 1500,
      energy |-> 100000, maxEnergy |-> 100000,
      isActive |-> TRUE, score |-> 0, harmonyLevel |-> 1 ]

\* requestAnimationFrame: a handle no pending frame carries
requestAnimationFrame(frames) ==
    CHOOSE h \in 1..(Cardinality(frames) + 1) : h \notin frames

\* stopGameLoop: the frames left pending
stopGameLoop(handle, frames) == IF handle # 0 THEN frames \ {handle} ELSE frames

\* initializeGame (constructor and resetGame)
initializeGameLegacy ==
    /\ player = createPlayer(27500, 27500)
    /\ obstacles = << >>
    /\ powerUps = << >>
    /\ gameState = MENU
    /\ config = createDefaultGameConfigLegacy
    /\ deltaTime = 0
    /\ gameLoopInterval = 0
    /\ pendingFrames = { }
    /\ emitted = << GAME_STARTED >>
    /\ gameLog = LogAll([t \in TrackedEvents |-> 0], << GAME_STARTED >>)

\* startGame(configOverrides)
startGameLegacy(overrides) ==
    /\ build = "legacy"
    /\ UNCHANGED << harmonicVars, systemVars >>
    /\ op' = [name |-> "startGame", arg |-> "none"]
    /\ IF isPlaying
       THEN /\ UNCHANGED << engineVars, gameLog, boundVars >>
            /\ emitted' = << >>
       ELSE LET merged == mergeConfig(config, overrides)
                cfg == IF merged.mode = "meditation"
                       THEN createMeditationConfig ELSE merged
                handle == requestAnimationFrame(pendingFrames)
            IN  /\ nSteps > 0
                /\ nSteps' = nSteps - 1
                /\ config' = cfg
                /\ player' = createPlayer(5000, TruncDiv(cfg.height, 2))
                /\ obstacles' = << >>
                /\ powerUps' = << >>
                /\ gameState' = PLAYING
                /\ gameLoopInterval' = handle
                /\ pendingFrames' = pendingFrames \cup {handle}
                /\ emitGameEvent(<< GAME_STARTED >>)
                /\ UNCHANGED deltaTime
    /\ UNCHANGED << build, effectSeen, emitting >>

\* pauseGame
pauseGame ==
    /\ build = "legacy"
    /\ UNCHANGED << harmonicVars, systemVars >>
    /\ op' = [name |-> "pauseGame", arg |-> "none"]
    /\ IF ~isPlaying
       THEN /\ UNCHANGED << gameState, gameLoopInterval, pendingFrames >>
            /\ emitGameEvent(<< >>)
       ELSE /\ gameState' = PAUSED
            /\ pendingFrames' = stopGameLoop(gameLoopInterval, pendingFrames)
            /\ gameLoopInterval' = 0
            /\ emitGameEvent(<< GAME_PAUSED >>)
    /\ UNCHANGED << build, effectSeen, emitting, config, deltaTime, player, obstacles, powerUps, boundVars >>

\* resumeGame
resumeGame ==
    /\ build = "legacy"
    /\ UNCHANGED << harmonicVars, systemVars >>
    /\ op' = [name |-> "resumeGame", arg |-> "none"]
    /\ IF ~isPaused
       THEN /\ UNCHANGED << gameState, gameLoopInterval, pendingFrames >>
            /\ emitGameEvent(<< >>)
       ELSE LET handle == requestAnimationFrame(pendingFrames)
            IN  /\ gameState' = PLAYING
                /\ gameLoopInterval' = handle
                /\ pendingFrames' = pendingFrames \cup {handle}
                /\ emitGameEvent(<< GAME_RESUMED >>)
    /\ UNCHANGED << build, effectSeen, emitting, config, deltaTime, player, obstacles, powerUps, boundVars >>

\* resetGame
resetGame ==
    /\ build = "legacy"
    /\ UNCHANGED << harmonicVars, systemVars >>
    /\ op' = [name |-> "resetGame", arg |-> "none"]
    /\ pendingFrames' = stopGameLoop(gameLoopInterval, pendingFrames)
    /\ gameLoopInterval' = 0
    /\ player' = createPlayer(27500, 27500)
    /\ obstacles' = << >>
    /\ powerUps' = << >>
    /\ gameState' = MENU
    /\ emitGameEvent(<< GAME_STARTED >>)
    /\ UNCHANGED << build, effectSeen, emitting, config, deltaTime, boundVars >>

\* The state and events the endGame of this engine produces from state gs
endGameStateLegacy(gs) == GAME_OVER

endGameEventsLegacy(gs) == << GAME_ENDED >>

\* endGame
\* ngOnDestroy of the Player/Obstacle engine: stopGameLoop
ngOnDestroyLegacy ==
    /\ build = "legacy"
    /\ UNCHANGED << harmonicVars, systemVars >>
    /\ op' = [name |-> "ngOnDestroy", arg |-> "none"]
    /\ pendingFrames' = stopGameLoop(gameLoopInterval, pendingFrames)
    /\ gameLoopInterval' = 0
    /\ emitGameEvent(<< >>)
    /\ UNCHANGED << build, effectSeen, emitting, gameState, config, deltaTime, player,
                    obstacles, powerUps, boundVars >>

endGameLegacy ==
    /\ build = "legacy"
    /\ UNCHANGED << harmonicVars, systemVars >>
    /\ op' = [name |-> "endGame", arg |-> "none"]
    /\ pendingFrames' = stopGameLoop(gameLoopInterval, pendingFrames)
    /\ gameLoopInterval' = 0
    /\ gameState' = endGameStateLegacy(gameState)
    /\ emitGameEvent(endGameEventsLegacy(gameState))
    /\ UNCHANGED << build, effectSeen, emitting, config, deltaTime, player, obstacles, powerUps, boundVars >>

\* zenProgress of updatePlayer for the position (x, y), in 1/1000:
\* max(0, 1 - distanceToCenter / maxDistance), which is 1 at the centre only
zenProgressAt(x, y, cfg) ==
    LET centerX == TruncDiv(cfg.width, 2)
        centerY == TruncDiv(cfg.height, 2)
        \* distances in 1/10 px
        dx == TruncDiv(x - centerX, 10)
        dy == TruncDiv(y - centerY, 10)
        distanceToCenter == Isqrt(dx * dx + dy * dy)
        maxDistance == Isqrt(TruncDiv(centerX, 10) * TruncDiv(centerX, 10)
                             + TruncDiv(centerY, 10) * TruncDiv(centerY, 10))
    IN  IF x = centerX /\ y = centerY THEN 1000
        ELSE Min(999, Max(0, 1000 - TruncDiv(distanceToCenter * 1000,
                                            maxDistance)))

\* updatePlayer
updatePlayer(p, cfg, dt) ==
    LET vy0 == p.vy + TruncDiv(cfg.gravity * dt, 1000)
        vx1 == TruncDiv(p.vx * cfg.friction, 100)
        vy1 == TruncDiv(vy0 * cfg.friction, 100)
        tooFast == vx1 * vx1 + vy1 * vy1 > cfg.maxSpeed * cfg.maxSpeed
        speed == Isqrt(vx1 * vx1 + vy1 * vy1)
        vx2 == IF tooFast THEN TruncDiv(vx1 * cfg.maxSpeed, speed) ELSE vx1
        vy2 == IF tooFast THEN TruncDiv(vy1 * cfg.maxSpeed, speed) ELSE vy1
        x == Max(p.radius, Min(cfg.width - p.radius, p.px + TruncDiv(vx2 * dt, 1000)))
        y == Max(p.radius, Min(cfg.height - p.radius, p.py + TruncDiv(vy2 * dt, 1000)))
    IN  \* { ...currentPlayer, position, velocity, zenProgress }
        [ px |-> x, py |-> y, vx |-> vx2, vy |-> vy2,
          radius |-> p.radius,
          energy |-> p.energy, maxEnergy |-> p.maxEnergy,
          isActive |-> p.isActive, score |-> p.score,
          harmonyLevel |-> p.harmonyLevel,
          zenProgress |-> zenProgressAt(x, y, cfg) ]

\* updateObstacles
updateObstacles(obs, dt) ==
    LET Upd(o) == IF o.type = "moving"
                  THEN [o EXCEPT !.px = o.px + TruncDiv(o.vx * dt, 1000),
                                 !.py = o.py + TruncDiv(o.vy * dt, 1000)]
                  ELSE o
        Active(o) == o.isActive
    IN  SeqFilter(SeqMap(obs, Upd), Active)

\* updatePowerUps
updatePowerUps(pus, dt) ==
    LET Upd(u) == [u EXCEPT !.age = u.age + dt]
        Keep(u) == u.isActive /\ u.age < u.lifeTime
    IN  SeqFilter(SeqMap(pus, Upd), Keep)

\* endGame() called inside a step of this engine; st carries gameState,
\* player, obstacles, powerUps, handle, frames, events
endGameInLegacy(st) ==
    [st EXCEPT !.frames = stopGameLoop(st.handle, st.frames),
               !.handle = 0,
               !.gameState = endGameStateLegacy(st.gameState),
               !.events = st.events \o endGameEventsLegacy(st.gameState)]

\* checkGameEndConditions
checkGameEndConditions(st) ==
    IF st.player.energy <= 0
    THEN endGameInLegacy([st EXCEPT !.events = st.events \o << ENERGY_DEPLETED >>])
    ELSE IF st.player.zenProgress >= 1000
    THEN endGameInLegacy([st EXCEPT !.gameState = VICTORY,
                                    !.events = st.events \o << ZEN_PROGRESS >>])
    ELSE st

\* Whether updateState advances the simulation in game state gs
stateAdvances(gs) == gs = PLAYING

\* The body of updateState(deltaTime) past its guard
updateStateIn(st, cfg, dt) ==
    checkGameEndConditions(
        [st EXCEPT !.player = updatePlayer(st.player, cfg, dt),
                   !.obstacles = updateObstacles(st.obstacles, dt),
                   !.powerUps = updatePowerUps(st.powerUps, dt)])

\* Frame lengths of this engine in ms: a 60 Hz frame and a one-second stall.
LegacyDts == {16, 1000}

legacyState(frames) ==
    [ gameState |-> gameState, player |-> player, obstacles |-> obstacles,
      powerUps |-> powerUps, handle |-> gameLoopInterval, frames |-> frames,
      events |-> << >> ]

\* updateState(deltaTime), called by a client
updateState(dt) ==
    /\ build = "legacy"
    /\ UNCHANGED << harmonicVars, systemVars >>
    /\ op' = [name |-> "updateState", arg |-> "none"]
    /\ IF ~stateAdvances(gameState)
       THEN /\ emitGameEvent(<< >>)
            /\ UNCHANGED << engineVars, boundVars >>
       ELSE LET st == updateStateIn(legacyState(pendingFrames), config, dt)
            IN  /\ nSteps > 0
                /\ nSteps' = nSteps - 1
                /\ deltaTime' = dt
                /\ gameState' = st.gameState
                /\ player' = st.player
                /\ obstacles' = st.obstacles
                /\ powerUps' = st.powerUps
                /\ gameLoopInterval' = st.handle
                /\ pendingFrames' = st.frames
                /\ emitGameEvent(st.events)
                /\ UNCHANGED config
    /\ UNCHANGED << build, effectSeen, emitting >>

\* The callback `loop` of startGameLoop runs for the pending frame h
loop(h, dt) ==
    /\ build = "legacy"
    /\ UNCHANGED << harmonicVars, systemVars >>
    /\ h \in pendingFrames
    /\ op' = [name |-> "loop", arg |-> "none"]
    /\ IF ~isPlaying
       THEN /\ pendingFrames' = pendingFrames \ {h}
            /\ emitGameEvent(<< >>)
            /\ UNCHANGED << gameState, config, deltaTime, player, obstacles,
                            powerUps, gameLoopInterval, boundVars >>
       ELSE LET st == updateStateIn(legacyState(pendingFrames \ {h}), config, dt)
                handle == requestAnimationFrame(st.frames)
            IN  /\ nSteps > 0
                /\ nSteps' = nSteps - 1
                /\ deltaTime' = dt
                /\ gameState' = st.gameState
                /\ player' = st.player
                /\ obstacles' = st.obstacles
                /\ powerUps' = st.powerUps
                /\ gameLoopInterval' = handle
                /\ pendingFrames' = st.frames \cup {handle}
                /\ emitGameEvent(st.events)
                /\ UNCHANGED config
    /\ UNCHANGED << build, effectSeen, emitting >>

\* handlePlayerInput
handlePlayerInput ==
    /\ build = "legacy"
    /\ UNCHANGED << harmonicVars, systemVars >>
    /\ op' = [name |-> "handlePlayerInput", arg |-> "none"]
    /\ IF ~isPlaying
       THEN UNCHANGED << player, nSteps >>
       ELSE /\ nSteps > 0
            /\ nSteps' = nSteps - 1
            /\ player' = [player EXCEPT !.vy = player.vy - config.impulseForce]
    /\ emitGameEvent(<< >>)
    /\ UNCHANGED << build, effectSeen, emitting, gameState, config, deltaTime, obstacles, powerUps,
                    gameLoopInterval, pendingFrames >>


(***************************************************************************)
(* HarmonicSystemService: waves, resonators, connections, patterns.        *)
(* Intensities and opacities are in 1/1000.  The steps work on a record    *)
(* sys of the fields they read and write:                                  *)
(*   waves, resonators, connections, patterns, nextId,                     *)
(*   harmonicPatterns, score, core, events                                 *)
(***************************************************************************)
\* cos and sin of 2*pi*i/n in 1/1000, for the ring sizes of the configurations
RingCos ==
    [ n \in {5, 8} |->
        IF n = 5 THEN << 1000, 309, -809, -809, 309 >>
        ELSE << 1000, 707, 0, -707, -1000, -707, 0, 707 >> ]

RingSin ==
    [ n \in {5, 8} |->
        IF n = 5 THEN << 0, 951, 588, -588, -951 >>
        ELSE << 0, 707, 1000, 707, 0, -707, -1000, -707 >> ]

ringRadius == 15000

waveMargin == 1000

createResonator(id, x, y, energyType) ==
    [ id |-> id, px |-> x, py |-> y, energyType |-> energyType,
      radius |-> 2000,
      isActivated |-> FALSE, isReceivingEnergy |-> FALSE,
      intensity |-> 500,
      connections |-> << >> ]

createResonatorConnection(id, a, b, energyType) ==
    [ id |-> id, resonatorIds |-> << a, b >>, energyType |-> energyType,
      intensity |-> 800, isActive |-> TRUE, age |-> 0, duration |-> -1 ]

createHarmonicPattern(id, resonatorIds, connectionIds, dominantEnergyType) ==
    [ id |-> id, resonatorIds |-> resonatorIds, connectionIds |-> connectionIds,
      dominantEnergyType |-> dominantEnergyType,
      isComplete |-> TRUE, activeTime |-> 0,
      value |-> Len(resonatorIds) * 10000 ]

createHarmonicWave(id, x, y, waveConfig) ==
    [ id |-> id, ox |-> x, oy |-> y, energyType |-> waveConfig.energyType,
      radius |-> 0, maxRadius |-> waveConfig.maxRadius,
      propagationSpeed |-> waveConfig.propagationSpeed,
      isActive |-> TRUE, age |-> 0, maxLifeTime |-> waveConfig.maxLifeTime,
      opacity |-> 900, activatedResonators |-> << >> ]

\* The config generateHarmonicWave hands to createHarmonicWave: lengths in
\* 1/100 px, the speed in 1/100 px per second, the life time in ms
waveConfigObject(energyType) ==
    [ maxRadius |-> 20000, propagationSpeed |-> 10000, amplitude |-> 1000,
      energyType |-> energyType, maxLifeTime |-> 3000 ]

\* generateInitialResonators: a ring of config.initialResonators resonators
generateInitialResonators(cfg, firstId) ==
    LET n == cfg.initialResonators
        centerX == TruncDiv(cfg.width, 2)
        centerY == TruncDiv(cfg.height, 2)
    IN  [ k \in 1..n |->
            createResonator(firstId + k - 1,
                            centerX + TruncDiv(RingCos[n][k] * ringRadius, 1000),
                            centerY + TruncDiv(RingSin[n][k] * ringRadius, 1000),
                            energyTypes[((k - 1) % 3) + 1]) ]

SeqContains(seq, x) == \E i \in 1..Len(seq) : seq[i] = x

\* A search that finds no connection
existingConnectionNone(conns, a, b) == FALSE

\* existingConnection of tryCreateConnections: an active connection that
\* includes both resonators
existingConnection(conns, a, b) ==
    \E c \in 1..Len(conns) :
        /\ conns[c].isActive
        /\ SeqContains(conns[c].resonatorIds, a)
        /\ SeqContains(conns[c].resonatorIds, b)

\* tryCreateConnections: the loop over the other activated resonators of the
\* same energy type, from index k of `others`
RECURSIVE connectFrom(_, _, _, _)
connectFrom(sys, r, others, k) ==
    IF k > Len(others) THEN sys
    ELSE LET o == others[k]
             existing == existingConnection(sys.connections, r.id, o.id)
             conn == createResonatorConnection(sys.nextId, r.id, o.id, r.energyType)
             Link(x) == IF x.id = r.id \/ x.id = o.id
                        THEN [x EXCEPT !.connections = Append(x.connections, conn.id)]
                        ELSE x
         IN  CHOOSE out \in
               { connectFrom(sys1, r, others, k + 1) :
                   sys1 \in { IF existing THEN sys
                              ELSE [sys EXCEPT
                                      !.connections = Append(sys.connections, conn),
                                      !.resonators = SeqMap(sys.resonators, Link),
                                      !.nextId = sys.nextId + 1] } } : TRUE

\* A filter that keeps the other activated resonators of every energy type
otherActivatedAnyEnergy(x, r) == x.id # r.id /\ x.isActivated

\* otherActivatedResonators of tryCreateConnections: whether x is another
\* activated resonator of the energy type of r
otherActivated(x, r) ==
    x.id # r.id /\ x.isActivated /\ x.energyType = r.energyType

\* tryCreateConnections
tryCreateConnections(sys, resonatorId) ==
    LET Is(x) == x.id = resonatorId
        i == FirstIndex(sys.resonators, Is)
        r == sys.resonators[i]
        Other(x) == otherActivated(x, r)
    IN  IF i = 0 THEN sys
        ELSE IF ~r.isActivated THEN sys
        ELSE connectFrom(sys, r, SeqFilter(sys.resonators, Other), 1)

\* activateResonator inside a step
activateResonatorIn(sys, resonatorId) ==
    LET Act(x) == IF x.id = resonatorId
                  THEN [x EXCEPT !.isActivated = TRUE, !.intensity = 1000]
                  ELSE x
    IN  CHOOSE out \in
          { tryCreateConnections(sys1, resonatorId) :
              sys1 \in { [sys EXCEPT !.resonators = SeqMap(sys.resonators, Act)] } } :
            TRUE

\* Distance in 1/100 px between a resonator and the origin of a wave
originDistance(r, w) ==
    LET dx == r.px - w.ox
        dy == r.py - w.oy
    IN  Isqrt(dx * dx + dy * dy)

\* A test that lets no wave trigger a resonator
waveReachesNothing(acc, r, w, radius) == FALSE

\* A test that lets a wave trigger whatever resonator its front is near
waveReachesAnyAgain(acc, r, w, radius) ==
    Abs(originDistance(r, w) - radius) < waveMargin

\* updateWave: whether the wave w, now of this radius, activates resonator r;
\* acc is the wave's list of activated resonators so far
waveReaches(acc, r, w, radius) ==
    /\ ~SeqContains(acc, r.id)
    /\ Abs(originDistance(r, w) - radius) < waveMargin
    /\ r.energyType = w.energyType

\* updateWave: the forEach over the resonators read on entry, from index k;
\* acc is the wave's list of activated resonators so far
RECURSIVE waveActivates(_, _, _, _, _, _)
waveActivates(sys, w, radius, snapshot, k, acc) ==
    IF k > Len(snapshot) THEN [sys |-> sys, activated |-> acc]
    ELSE LET r == snapshot[k]
         IN  IF waveReaches(acc, r, w, radius)
             THEN CHOOSE out \in
                    { waveActivates(sys1, w, radius, snapshot, k + 1,
                                    Append(acc, r.id)) :
                        sys1 \in { activateResonatorIn(sys, r.id) } } : TRUE
             ELSE waveActivates(sys, w, radius, snapshot, k + 1, acc)

\* A front that moves inwards
propagatedRadiusInwards(w, dt) == w.radius - TruncDiv(w.propagationSpeed * dt, 1000)

\* updateWave: the radius after dt ms
propagatedRadius(w, dt) == w.radius + TruncDiv(w.propagationSpeed * dt, 1000)

\* updateWave: the wave w after dt ms, and the system after the activations
\* it made
updateWave(sys, w, dt) ==
    LET age == w.age + dt
        radius == propagatedRadius(w, dt)
        opacity == TruncDiv(w.opacity * (w.maxLifeTime - age), w.maxLifeTime)
        isActive == radius <= w.maxRadius /\ age <= w.maxLifeTime
    IN  CHOOSE out \in
          { [ sys |-> res.sys,
              wave |-> [w EXCEPT !.radius = radius, !.age = age,
                                 !.opacity = opacity, !.isActive = isActive,
                                 !.activatedResonators = res.activated] ] :
              res \in { IF isActive
                         THEN waveActivates(sys, w, radius, sys.resonators, 1,
                                            w.activatedResonators)
                         ELSE [sys |-> sys,
                               activated |-> w.activatedResonators] } } : TRUE

\* The filter of updateHarmonicWaves
waveKept(w) == w.isActive /\ w.age < w.maxLifeTime

\* updateHarmonicWaves: map updateWave over the waves from index k, then filter
RECURSIVE updateWavesFrom(_, _, _, _)
updateWavesFrom(sys, waves, k, dt) ==
    IF k > Len(waves)
    THEN LET Keep(w) == waveKept(w)
         IN  [sys EXCEPT !.waves = SeqFilter(waves, Keep)]
    ELSE CHOOSE out \in
           { updateWavesFrom(res.sys, [waves EXCEPT ![k] = res.wave], k + 1, dt) :
               res \in { updateWave(sys, waves[k], dt) } } : TRUE

updateHarmonicWaves(sys, dt) == updateWavesFrom(sys, sys.waves, 1, dt)

\* updateResonators
updateResonators(sys, dt) ==
    LET Receiving(r) ==
            \E k \in 1..Len(sys.waves) :
                LET w == sys.waves[k]
                IN  /\ w.isActive
                    /\ w.energyType = r.energyType
                    /\ Abs(originDistance(r, w) - w.radius) < r.radius
        Upd(r) ==
            [r EXCEPT
               !.isReceivingEnergy = Receiving(r),
               !.intensity =
                   IF Receiving(r)
                   THEN Min(1000, r.intensity + TruncDiv(100 * dt, 1000))
                   ELSE IF r.isActivated
                   THEN Max(500, r.intensity - TruncDiv(20 * dt, 1000))
                   ELSE Max(200, r.intensity - TruncDiv(50 * dt, 1000))]
    IN  [sys EXCEPT !.resonators = SeqMap(sys.resonators, Upd)]

\* updateConnections
updateConnections(sys, dt) ==
    LET Activated(id) ==
            \E k \in 1..Len(sys.resonators) :
                sys.resonators[k].id = id /\ sys.resonators[k].isActivated
        Upd(c) ==
            LET age == c.age + dt
                allResonatorsActive ==
                    \A k \in 1..Len(c.resonatorIds) : Activated(c.resonatorIds[k])
            IN  [c EXCEPT
                   !.age = age,
                   !.isActive = (c.duration = -1 \/ age < c.duration)
                                /\ allResonatorsActive,
                   !.intensity = IF allResonatorsActive
                                 THEN Min(1000, c.intensity + TruncDiv(50 * dt, 1000))
                                 ELSE TruncDiv(c.intensity * 9, 10)]
        Active(c) == c.isActive
    IN  [sys EXCEPT !.connections = SeqFilter(SeqMap(sys.connections, Upd), Active)]

\* updatePatterns
updatePatterns(sys, dt) ==
    LET ActiveConnection(id) ==
            \E k \in 1..Len(sys.connections) :
                sys.connections[k].id = id /\ sys.connections[k].isActive
        Upd(p) ==
            LET allConnectionsActive ==
                    \A k \in 1..Len(p.connectionIds) : ActiveConnection(p.connectionIds[k])
                activeTime == IF p.isComplete THEN p.activeTime + dt ELSE 0
            IN  [p EXCEPT !.isComplete = allConnectionsActive,
                          !.activeTime = IF allConnectionsActive THEN activeTime ELSE 0]
    IN  [sys EXCEPT !.patterns = SeqMap(sys.patterns, Upd)]

\* A level for every second pattern
completesLevelByTwo(n) == n % 2 = 0

\* The test of onPatternCompleted for a harmony level: the n-th pattern of
\* the game is a third one
completesLevel(n) == n % 3 = 0

\* onPatternCompleted of the engine, called by checkForNewPatterns
onPatternCompleted(sys, pattern) ==
    LET hp == Append(sys.harmonicPatterns, pattern.id)
        levelUp == completesLevel(Len(hp))
    IN  [sys EXCEPT
           !.harmonicPatterns = hp,
           !.score = FAdd(sys.score, pattern.value),
           !.core.harmonyLevel = IF levelUp THEN @ + 1 ELSE @,
           !.events = sys.events \o << PATTERN_COMPLETED >>
                      \o (IF levelUp THEN << HARMONY_INCREASED >> ELSE << >>)]

\* The ids of a sequence of connections' resonators, in order of first occurrence
RECURSIVE resonatorIdsOf(_, _, _)
resonatorIdsOf(conns, k, acc) ==
    IF k > Len(conns) THEN acc
    ELSE LET a == conns[k].resonatorIds[1]
             b == conns[k].resonatorIds[2]
         IN  CHOOSE out \in
               { resonatorIdsOf(conns, k + 1, acc2) : acc2 \in
               { IF SeqContains(acc1, b) THEN acc1 ELSE Append(acc1, b) : acc1 \in
               { IF SeqContains(acc, a) THEN acc ELSE Append(acc, a) } } } : TRUE

SeqRange(seq) == { seq[i] : i \in 1..Len(seq) }

\* A membership test that finds nothing
patternNeverExists(ps, ids) == FALSE

\* patternExists of checkForNewPatterns: some pattern has exactly these
\* resonator ids, compared as sets
patternExists(ps, ids) ==
    \E j \in 1..Len(ps) : SeqRange(ps[j].resonatorIds) = SeqRange(ids)

\* checkForNewPatterns: the loop over the energy types, from index k
RECURSIVE checkPatternsFrom(_, _, _)
checkPatternsFrom(sys, active, k) ==
    IF k > 4 THEN sys
    ELSE LET energyType == << "calm", "vibrant", "intense", "harmonic" >>[k]
             OfType(c) == c.energyType = energyType
             Id(c) == c.id
             Found(conns, ids) ==
                 createHarmonicPattern(sys.nextId, ids, SeqMap(conns, Id), energyType)
         IN  CHOOSE out \in
               { checkPatternsFrom(sys1, active, k + 1) : sys1 \in
               { IF Len(conns) < 3 THEN sys
                 ELSE CHOOSE found \in
                   { IF ~patternExists(sys.patterns, ids) /\ Len(ids) >= 3
                     THEN onPatternCompleted(
                              [sys EXCEPT
                                 !.patterns = Append(sys.patterns, Found(conns, ids)),
                                 !.nextId = sys.nextId + 1],
                              Found(conns, ids))
                     ELSE sys : ids \in { resonatorIdsOf(conns, 1, << >>) } } : TRUE :
                 conns \in { SeqFilter(active, OfType) } } } : TRUE

checkForNewPatterns(sys) ==
    LET Active(c) == c.isActive
    IN  checkPatternsFrom(sys, SeqFilter(sys.connections, Active), 1)

\* The body of updateSystem(deltaTime)
updateSystemIn(sys, dt) ==
    CHOOSE done \in
        { checkForNewPatterns(s4) : s4 \in
        { updatePatterns(s3, dt) : s3 \in
        { updateConnections(s2, dt) : s2 \in
        { updateResonators(s1, dt) : s1 \in
        { updateHarmonicWaves(s0, dt) : s0 \in { sys } } } } } } : TRUE

systemState ==
    [ waves |-> harmonicWaves, resonators |-> resonators,
      connections |-> connections, patterns |-> patterns, nextId |-> nextId,
      harmonicPatterns |-> harmonicPatterns, score |-> score, core |-> core,
      events |-> << >> ]

\* Frame length of the harmonic system in ms
SystemDts == {1000}

\* Frame lengths that bring the front of a wave from the centre to 100, 150
\* and 200 px
FrontDts == {1000, 1500}

\* The resonators a client activates, by position in the ring
ActivationIndices == {1, 4, 7}

\* clearSystem()
clearSystem ==
    /\ build = "harmonic"
    /\ op' = [name |-> "clearSystem", arg |-> "none"]
    /\ harmonicWaves' = << >>
    /\ resonators' = << >>
    /\ connections' = << >>
    /\ patterns' = << >>
    /\ emitGameEvent(<< >>)
    /\ UNCHANGED << build, effectSeen, emitting, gameState, config, deltaTime, core,
                    dissonances, amplifiers, score, harmonicPatterns,
                    dissonanceSpawnTimer, amplifierSpawnTimer, patternCheckTimer,
                    coreHitCooldown, loopRunning, timeouts, nextId, legacyVars,
                    boundVars >>

\* initializeSystem(config): clearSystem, then generateInitialResonators
initializeSystem(cfg) ==
    /\ build = "harmonic"
    /\ nSteps > 0
    /\ nSteps' = nSteps - 1
    /\ op' = [name |-> "initializeSystem", arg |-> "none"]
    /\ harmonicWaves' = << >>
    /\ connections' = << >>
    /\ patterns' = << >>
    /\ resonators' = generateInitialResonators(cfg, nextId)
    /\ nextId' = nextId + cfg.initialResonators
    /\ emitGameEvent(<< >>)
    /\ UNCHANGED << build, effectSeen, emitting, gameState, config, deltaTime, core, dissonances,
                    amplifiers, score, harmonicPatterns, dissonanceSpawnTimer,
                    amplifierSpawnTimer, patternCheckTimer, coreHitCooldown,
                    loopRunning, timeouts, legacyVars >>

\* No overrides
noOverrides == [ f \in { } |-> 0 ]

\* generateHarmonicWave(origin, energyType, overrides)
generateHarmonicWave(x, y, energyType, overrides) ==
    /\ build = "harmonic"
    /\ nSteps > 0
    /\ nSteps' = nSteps - 1
    /\ op' = [name |-> "generateHarmonicWave", arg |-> "none"]
    /\ harmonicWaves' = Append(harmonicWaves,
                               createHarmonicWave(nextId, x, y,
                                   mergeConfig(waveConfigObject(energyType),
                                               overrides)))
    /\ nextId' = nextId + 1
    /\ emitGameEvent(<< >>)
    /\ UNCHANGED << build, effectSeen, emitting, gameState, config, deltaTime, core, dissonances,
                    amplifiers, score, harmonicPatterns, dissonanceSpawnTimer,
                    amplifierSpawnTimer, patternCheckTimer, coreHitCooldown,
                    loopRunning, timeouts, legacyVars,
                    resonators, connections, patterns >>

\* activateResonator(resonatorId), for the resonator at position k of the ring
activateResonator(k) ==
    /\ build = "harmonic"
    /\ k <= Len(resonators)
    /\ op' = [name |-> "activateResonator", arg |-> "none"]
    /\ LET sys == activateResonatorIn(systemState, resonators[k].id)
       IN  /\ resonators' = sys.resonators
           /\ connections' = sys.connections
           /\ nextId' = sys.nextId
    /\ emitGameEvent(<< >>)
    /\ UNCHANGED << build, effectSeen, emitting, gameState, config, deltaTime, core, dissonances,
                    amplifiers, score, harmonicPatterns, dissonanceSpawnTimer,
                    amplifierSpawnTimer, patternCheckTimer, coreHitCooldown,
                    loopRunning, timeouts, legacyVars,
                    harmonicWaves, patterns, boundVars >>

\* updateSystem(deltaTime)
updateSystemFrame(dt) ==
    /\ build = "harmonic"
    /\ op' = [name |-> "updateSystem", arg |-> "none"]
    /\ \E sys \in { updateSystemIn(systemState, dt) } :
           /\ harmonicWaves' = sys.waves
           /\ resonators' = sys.resonators
           /\ connections' = sys.connections
           /\ patterns' = sys.patterns
           /\ nextId' = sys.nextId
           /\ harmonicPatterns' = sys.harmonicPatterns
           /\ score' = sys.score
           /\ core' = sys.core
           /\ emitGameEvent(sys.events)
    /\ UNCHANGED << build, effectSeen, emitting, gameState, config, deltaTime, dissonances,
                    amplifiers, dissonanceSpawnTimer, amplifierSpawnTimer,
                    patternCheckTimer, coreHitCooldown, loopRunning, timeouts,
                    legacyVars >>

\* updateSystem(deltaTime) within the budget of steps
updateSystem(dt) ==
    /\ nSteps > 0
    /\ nSteps' = nSteps - 1
    /\ updateSystemFrame(dt)


(***************************************************************************)
(* Specification.                                                          *)
(***************************************************************************)
\* The engine that is not deployed is never constructed
harmonicIdle ==
    /\ core = createHarmonicCore(27500, 27500)
    /\ dissonances = << >>
    /\ amplifiers = << >>
    /\ harmonicPatterns = << >>
    /\ score = 0
    /\ dissonanceSpawnTimer = 0
    /\ amplifierSpawnTimer = 0
    /\ patternCheckTimer = 0
    /\ coreHitCooldown = 0
    /\ loopRunning = FALSE
    /\ effectSeen = FALSE
    /\ timeouts = << >>
    /\ nextId = 1

\* HarmonicSystemService after construction
systemIdle ==
    /\ harmonicWaves = << >>
    /\ resonators = << >>
    /\ connections = << >>
    /\ patterns = << >>

legacyIdle ==
    /\ player = createPlayer(27500, 27500)
    /\ obstacles = << >>
    /\ powerUps = << >>
    /\ gameLoopInterval = 0
    /\ pendingFrames = { }

Init ==
    /\ build \in {"harmonic", "legacy"}
    /\ IF build = "harmonic"
       THEN initializeGame /\ legacyIdle
       ELSE initializeGameLegacy /\ harmonicIdle
    /\ systemIdle
    /\ op = [name |-> "constructor", arg |-> "none"]
    /\ emitting = noEmission
    /\ nSteps = MaxSteps

Next ==
    \/ \E o \in ConfigOverrides : startGame(o)
    \/ togglePause
    \/ endGame
    \/ loopEffect
    \/ \E dt \in Dts, dd \in DissonanceDraws, ad \in AmplifierDraws : gameLoop(dt, dd, ad)
    \/ \E d \in Directions : applyImpulse(d)
    \/ \E e \in {"calm"} : generateWave(e)
    \/ fireTimeout
    \/ \E t \in Dts : timePasses(t)
    \/ \E o \in LegacyOverrides : startGameLegacy(o)
    \/ pauseGame
    \/ resumeGame
    \/ resetGame
    \/ endGameLegacy
    \/ \E dt \in LegacyDts : updateState(dt)
    \/ \E h \in pendingFrames, dt \in LegacyDts : loop(h, dt)
    \/ handlePlayerInput
    \/ ngOnDestroy
    \/ connectResonators
    \/ ngOnDestroyLegacy

Spec == Init /\ [][Next]_vars

\* The HarmonicCore engine's lifecycle together with HarmonicSystemService
SystemInit ==
    /\ build = "harmonic"
    /\ initializeGame
    /\ legacyIdle
    /\ systemIdle
    /\ op = [name |-> "constructor", arg |-> "none"]
    /\ emitting = noEmission
    /\ nSteps = MaxSteps

SystemNext ==
    \/ \E o \in {createResonanceConfig} : startGame(o)
    \/ togglePause
    \/ endGame
    \/ \E c \in {createResonanceConfig} : initializeSystem(c)
    \/ \E e \in {"calm"} : generateHarmonicWave(27500, 27500, e, noOverrides)
    \/ \E k \in ActivationIndices : activateResonator(k)
    \/ \E dt \in FrontDts : updateSystem(dt)
    \/ clearSystem

SystemSpec == SystemInit /\ [][SystemNext]_vars

(***************************************************************************)
(* HarmonicSystemService alone, under frames short enough for a wave front *)
(* to stay within the margin of a resonator for two updates.               *)
(***************************************************************************)
WaveDts == {50, 1000, 1450}

WaveInit ==
    /\ build = "harmonic"
    /\ initializeGame
    /\ legacyIdle
    /\ systemIdle
    /\ op = [name |-> "constructor", arg |-> "none"]
    /\ emitting = noEmission
    /\ nSteps = MaxSteps

WaveNext ==
    \/ \E c \in {createResonanceConfig} : initializeSystem(c)
    \/ \E e \in {"calm"} : generateHarmonicWave(27500, 27500, e, noOverrides)
    \/ \E k \in ActivationIndices : activateResonator(k)
    \/ \E dt \in WaveDts : updateSystem(dt)
    \/ clearSystem

WaveSpec == WaveInit /\ [][WaveNext]_vars

(***************************************************************************)
(* HarmonicSystemService alone, with waves of every energy type and a wave *)
(* whose lifetime the caller overrides, under a budget of calls.           *)
(***************************************************************************)
MaxWaveCommands == 4

WaveLifeDts == {500, 1000}

WaveLifeInit ==
    /\ build = "harmonic"
    /\ initializeGame
    /\ legacyIdle
    /\ systemIdle
    /\ op = [name |-> "constructor", arg |-> "none"]
    /\ emitting = noEmission
    /\ nSteps = MaxWaveCommands

\* Overrides of a wave whose life ends when its front is at the ring
shortLivedWave == [ maxLifeTime |-> 1500 ]

WaveLifeNext ==
    \/ \E c \in {createResonanceConfig} : initializeSystem(c)
    \/ \E e \in EnergyType : generateHarmonicWave(27500, 27500, e, noOverrides)
    \/ \E o \in {shortLivedWave} : generateHarmonicWave(27500, 27500, "calm", o)
    \/ \E dt \in WaveLifeDts : updateSystem(dt)
    \/ clearSystem

WaveLifeSpec == WaveLifeInit /\ [][WaveLifeNext]_vars

(***************************************************************************)
(* HarmonicSystemService alone, with a client that activates resonators of *)
(* two energy types.                                                       *)
(***************************************************************************)
MixedActivationIndices == {1, 2, 4, 5}

ConnectNext ==
    \/ \E c \in {createResonanceConfig} : initializeSystem(c)
    \/ \E k \in MixedActivationIndices : activateResonator(k)
    \/ \E dt \in SystemDts : updateSystem(dt)
    \/ clearSystem

ConnectSpec == SystemInit /\ [][ConnectNext]_vars

(***************************************************************************)
(* The HarmonicCore engine under frames of 2, 5 and 8 seconds, so that     *)
(* several boosts and their 5-second reversals overlap, within one game    *)
(* and across a restart.                                                   *)
(***************************************************************************)
MaxBoostSteps == 7

BoostDts == {2000, 5000, 8000}

\* a static dissonance away from the core
BoostDissonanceDraws == { d \in DissonanceDraws : d.rtype = 0 }

\* a frequency amplifier on the core
BoostAmplifierDraws == { a \in AmplifierDraws : a.rtype = 300 }

BoostInit ==
    /\ build = "harmonic"
    /\ initializeGame
    /\ legacyIdle
    /\ systemIdle
    /\ op = [name |-> "constructor", arg |-> "none"]
    /\ emitting = noEmission
    /\ nSteps = MaxBoostSteps

BoostNext ==
    \/ \E o \in {createDefaultGameConfig} : startGame(o)
    \/ endGame
    \/ loopEffect
    \/ \E dt \in BoostDts, dd \in BoostDissonanceDraws, ad \in BoostAmplifierDraws :
          gameLoop(dt, dd, ad)
    \/ fireTimeout
    \/ \E t \in {5000} : timePasses(t)

BoostSpec == BoostInit /\ [][BoostNext]_vars

\* The HarmonicCore engine with a subscriber of gameEvents$ that may call the
\* engine's commands while it handles CORE_COLLISION.  Nothing else runs
\* while the tick is suspended in the emission.
ReentrantInit ==
    /\ build = "harmonic"
    /\ initializeGame
    /\ legacyIdle
    /\ systemIdle
    /\ op = [name |-> "constructor", arg |-> "none"]
    /\ emitting = noEmission
    /\ nSteps = MaxSteps

\* Whether a tick is suspended in an emission: only the subscribers run then
inSubscriber == emitting.event = CORE_COLLISION

\* Between ticks: a start, the arming of the interval, a whole tick, or a tick
\* that a subscriber interrupts.  Inside the subscriber's handler: any command
\* of the engine.  Then the rest of the tick.
ReentrantNext ==
    \/ ~inSubscriber /\ \E o \in {createDefaultGameConfig} : startGame(o)
    \/ ~inSubscriber /\ loopEffect
    \/ ~inSubscriber /\ \E dt \in Dts, dd \in DissonanceDraws, ad \in AmplifierDraws :
                            gameLoop(dt, dd, ad)
    \/ \E dt \in Dts : gameLoopEmits(dt)
    \/ inSubscriber /\ \E o \in {createDefaultGameConfig} : startGame(o)
    \/ inSubscriber /\ togglePause
    \/ inSubscriber /\ endGame
    \/ inSubscriber /\ \E d \in Directions : applyImpulse(d)
    \/ inSubscriber /\ \E e \in {"calm"} : generateWave(e)
    \/ \E dd \in DissonanceDraws, ad \in AmplifierDraws : gameLoopResumes(dd, ad)

ReentrantSpec == ReentrantInit /\ [][ReentrantNext]_vars

(***************************************************************************)
(* The HarmonicCore engine left alone: the default configuration with both *)
(* spawn caps at 0, no input, frames from 10 ms to a suspended tab.        *)
(***************************************************************************)
MaxQuietSteps == 7

QuietDts == {10, 50, 1000, 8000, 490000}

\* createDefaultGameConfig() with spawning.maxDissonances and
\* spawning.maxAmplifiers overridden to 0
createCapsZeroConfig ==
    [ createDefaultGameConfig EXCEPT !.maxDissonances = 0, !.maxAmplifiers = 0 ]

QuietInit ==
    /\ build = "harmonic"
    /\ initializeGame
    /\ legacyIdle
    /\ systemIdle
    /\ op = [name |-> "constructor", arg |-> "none"]
    /\ emitting = noEmission
    /\ nSteps = MaxQuietSteps

QuietNext ==
    \/ \E o \in {createCapsZeroConfig} : startGame(o)
    \/ loopEffect
    \/ \E dt \in QuietDts, dd \in BoostDissonanceDraws, ad \in BoostAmplifierDraws :
          gameLoop(dt, dd, ad)

QuietSpec == QuietInit /\ [][QuietNext]_vars

(***************************************************************************)
(* The HarmonicCore engine with both spawn caps at 1, so that the caps are *)
(* reached within a few frames.                                            *)
(***************************************************************************)
createCapsOneConfig ==
    [ createDefaultGameConfig EXCEPT !.maxDissonances = 1, !.maxAmplifiers = 1 ]

CapNext ==
    \/ \E o \in {createCapsOneConfig} : startGame(o)
    \/ loopEffect
    \/ \E dt \in BoostDts, dd \in DissonanceDraws, ad \in BoostAmplifierDraws :
          gameLoop(dt, dd, ad)
    \/ fireTimeout

CapSpec == BoostInit /\ [][CapNext]_vars

(***************************************************************************)
(* The HarmonicCore engine and HarmonicSystemService over enough rounds of *)
(* initializeSystem, direct activations and updateSystem for the engine to *)
(* record more than three patterns, across a restart.                      *)
(***************************************************************************)
MaxPatternSteps == 5

\* onPatternCompleted(pattern), called directly with a pattern of the given
\* number of resonators
patternCompleted(size) ==
    /\ build = "harmonic"
    /\ UNCHANGED << legacyVars, systemVars >>
    /\ nSteps > 0
    /\ nSteps' = nSteps - 1
    /\ op' = [name |-> "onPatternCompleted", arg |-> size]
    /\ \E sys \in { onPatternCompleted(
                        systemState,
                        createHarmonicPattern(nextId, [k \in 1..size |-> k], << >>,
                                              "calm")) } :
          /\ harmonicPatterns' = sys.harmonicPatterns
          /\ score' = sys.score
          /\ core' = sys.core
          /\ emitGameEvent(sys.events)
    /\ nextId' = nextId + 1
    /\ UNCHANGED << build, effectSeen, emitting, gameState, config, deltaTime, dissonances,
                    amplifiers, dissonanceSpawnTimer, amplifierSpawnTimer,
                    patternCheckTimer, coreHitCooldown, loopRunning, timeouts >>

PatternInit ==
    /\ build = "harmonic"
    /\ initializeGame
    /\ legacyIdle
    /\ systemIdle
    /\ op = [name |-> "constructor", arg |-> "none"]
    /\ emitting = noEmission
    /\ nSteps = MaxPatternSteps

PatternNext ==
    \/ \E o \in {createResonanceConfig} : startGame(o)
    \/ \E c \in {createResonanceConfig} : initializeSystem(c)
    \/ \E k \in ActivationIndices : activateResonator(k)
    \/ \E dt \in SystemDts : updateSystem(dt)
    \/ \E size \in {3} : patternCompleted(size)
    \/ clearSystem

PatternSpec == PatternInit /\ [][PatternNext]_vars

TypeOK ==
    /\ gameState \in IF build = "harmonic" THEN GameStates ELSE LegacyGameStates
    /\ core.energy \in 0..core.maxEnergy

(***************************************************************************)
(* Properties.                                                             *)
(***************************************************************************)
\* The simulation data of both engines and of the harmonic system
simulationData ==
    << core, dissonances, amplifiers, score, harmonicPatterns,
       dissonanceSpawnTimer, amplifierSpawnTimer, patternCheckTimer,
       coreHitCooldown, player, obstacles, powerUps,
       harmonicWaves, resonators, connections, patterns >>

\* C1: in every reachable state of the engine, whatever sequence of starts,
\* pauses, ends, ticks, impulses, waves, dissonance hits and amplifier
\* collections led to it, the core's energy is at least 0 and at most maxEnergy.
C1_EnergyWithinBounds ==
    build = "harmonic" => (core.energy >= 0 /\ core.energy <= core.maxEnergy)

\* A tick has collected an energy amplifier whose value would have carried the
\* energy past maxEnergy.
C1_AmplifierCapped ==
    /\ build = "harmonic"
    /\ op.name = "gameLoop"
    /\ CountIn(emitted, POWERUP_COLLECTED) = 1
    /\ core.energy = core.maxEnergy

\* C2: a tick delivered in a game state other than PLAYING advances nothing:
\* core, dissonances, amplifiers, waves, resonators, connections, patterns,
\* score, spawn timers and collision cooldown are unchanged by it.
C2_TickOutsidePlayingFrozen ==
    [][(op'.name \in {"gameLoop", "updateState", "updateSystem"}
        /\ gameState # PLAYING)
       => UNCHANGED simulationData]_vars

\* C3: a start command issued while the game is PLAYING is a no-op: game
\* state, configuration, core, entity collections and score are unchanged and
\* no GAME_STARTED is emitted.
C3_StartWhilePlayingRejected ==
    [][(op'.name = "startGame" /\ gameState = PLAYING)
       => (UNCHANGED << gameState, config, simulationData >>
           /\ CountIn(emitted', GAME_STARTED) = 0)]_vars

\* A start command has been refused in a game that has already advanced.
C3_StartRefused ==
    /\ op.name = "startGame"
    /\ emitted = << >>
    /\ gameState = PLAYING
    /\ deltaTime > 0

\* C4: pause is idempotent: a pause command that directly follows a pause
\* command changes neither the game state nor the simulation data and emits
\* nothing; in particular two pauses from PLAYING end in PAUSED.
C4_PauseIdempotent ==
    [][(op.name \in {"togglePause", "pauseGame"} /\ op'.name = op.name)
       => (UNCHANGED << gameState, simulationData >> /\ emitted' = << >>)]_vars

\* C5: the pause command invoked in a state other than PLAYING, and the resume
\* command invoked in a state other than PAUSED, change neither the game state
\* nor the simulation data and emit neither GAME_PAUSED nor GAME_RESUMED.
C5_PauseResumeGuarded ==
    [][((op'.name \in {"togglePause", "pauseGame"} /\ gameState # PLAYING)
        \/ (op'.name = "resumeGame" /\ gameState # PAUSED))
       => (UNCHANGED << gameState, simulationData >>
           /\ CountIn(emitted', GAME_PAUSED) = 0
           /\ CountIn(emitted', GAME_RESUMED) = 0)]_vars

\* C6: the end command is accepted only from PLAYING or PAUSED, where it sets
\* the state to GAME_OVER and emits exactly one GAME_ENDED; in every other
\* state it leaves the state unchanged and emits no GAME_ENDED.
C6_EndOnlyFromGame ==
    [][op'.name = "endGame"
       => IF gameState \in {PLAYING, PAUSED}
          THEN gameState' = GAME_OVER /\ CountIn(emitted', GAME_ENDED) = 1
          ELSE gameState' = gameState /\ CountIn(emitted', GAME_ENDED) = 0]_vars

\* The arrows of the documented state machine
DocumentedArrows ==
    { << LOADING, MENU >>, << MENU, PLAYING >>,
      << PLAYING, PAUSED >>, << PAUSED, PLAYING >>,
      << PLAYING, GAME_OVER >>, << PAUSED, GAME_OVER >>,
      << PLAYING, VICTORY >>, << PAUSED, VICTORY >>,
      << GAME_OVER, MENU >>, << VICTORY, MENU >> }

\* C7: under any sequence of commands and ticks the game state changes only
\* along the documented arrows.
C7_OnlyDocumentedArrows ==
    [][gameState' # gameState
       => << gameState, gameState' >> \in DocumentedArrows]_vars

\* C8: a tick in which the core's energy goes from above 0 to 0 or below,
\* whatever the cause, emits exactly one ENERGY_DEPLETED and exactly one
\* GAME_ENDED and leaves the state GAME_OVER, and neither event has been
\* emitted another time in that game.
C8_DepletionAnnouncedOnce ==
    [][(build = "harmonic" /\ op'.name = "gameLoop"
        /\ core.energy > 0 /\ core'.energy <= 0)
       => (/\ CountIn(emitted', ENERGY_DEPLETED) = 1
           /\ CountIn(emitted', GAME_ENDED) = 1
           /\ gameState' = GAME_OVER
           /\ gameLog'[ENERGY_DEPLETED] = 1
           /\ gameLog'[GAME_ENDED] = 1)]_vars

\* C9: applyImpulse with the zero vector while PLAYING leaves the core's
\* velocity exactly as it was, and finite.
C9_ZeroImpulseKeepsVelocity ==
    [][(op'.name = "applyImpulse" /\ op'.arg = << 0, 0 >> /\ gameState = PLAYING)
       => (/\ core'.vx = core.vx /\ core'.vy = core.vy
           /\ ~IsNaN(core'.vx) /\ ~IsNaN(core'.vy))]_vars

\* C10: generateWave is a no-op (core unchanged, no event, no wave) whenever
\* the state is not PLAYING or the energy is below the cost of 5; otherwise it
\* takes exactly 5 from the energy and leaves it at least 0.
C10_GenerateWaveCost ==
    [][op'.name = "generateWave"
       => IF gameState # PLAYING \/ core.energy < 5000
          THEN core' = core /\ emitted' = << >> /\ harmonicWaves' = harmonicWaves
          ELSE core'.energy = core.energy - 5000 /\ core'.energy >= 0]_vars

\* A wave has been refused during play because the energy left is below 5.
C10_WaveRefusedForEnergy ==
    /\ op.name = "generateWave"
    /\ gameState = PLAYING
    /\ emitted = << >>
    /\ core.energy > 0
    /\ core.energy < 5000


\* Whether entity e (a dissonance or an amplifier) overlaps the core c
overlapsCore(e, c) ==
    DistanceLess(FAdd(e.px, -c.px), FAdd(e.py, -c.py), c.radius + e.radius)

\* The energy left by a tick that decays energy e0 and then takes a hit of
\* damage dl, followed by the energy amplifier taken in the same tick, if any
energyAfterHit(e0, dl, cfg, dt, maxEnergy, amps) ==
    LET hit == Max(0, Max(0, e0 - TruncDiv(cfg.decayRate * dt, 1000)) - dl)
    IN  IF \E j \in 1..Len(amps) : ~amps[j].isActive /\ amps[j].type = "energy"
        THEN Min(maxEnergy, hit + 25000)
        ELSE hit

\* C11: a dissonance hit on a tick with no cooldown running leaves
\* max(0, energy - disruptionLevel) and sets the cooldown to 0.6 s; on a
\* tick with the cooldown running no collision is raised and the energy only
\* decays, whatever overlaps the core.
C11_HitThenCooldown ==
    [][(build = "harmonic" /\ op'.name = "gameLoop" /\ gameState = PLAYING) =>
        IF coreHitCooldown > 0
        THEN /\ CountIn(emitted', CORE_COLLISION) = 0
             /\ core'.energy
                  = Max(0, core.energy - TruncDiv(config.decayRate * deltaTime', 1000))
             /\ coreHitCooldown' = coreHitCooldown - deltaTime'
        ELSE CountIn(emitted', CORE_COLLISION) >= 1 =>
             /\ CountIn(emitted', CORE_COLLISION) = 1
             /\ coreHitCooldown' = 600
             /\ \E i \in 1..Len(dissonances') :
                   /\ ~dissonances'[i].isActive
                   /\ core'.energy
                        = energyAfterHit(core.energy, dissonances'[i].disruptionLevel,
                                         config, deltaTime', core.maxEnergy, amplifiers')
      ]_vars

\* A tick that ran with the cooldown of an earlier hit while another active
\* dissonance overlapped the core
C11_OverlapDuringCooldown ==
    /\ build = "harmonic"
    /\ op.name = "gameLoop"
    /\ gameState = PLAYING
    /\ gameLog[CORE_COLLISION] = 1
    /\ emitted = << >>
    /\ coreHitCooldown = collisionCooldown - deltaTime
    /\ \E i \in 1..Len(dissonances) :
          dissonances[i].isActive /\ overlapsCore(dissonances[i], core)

\* C12: a dissonance deactivated by a hit is no longer in the dissonance
\* collection after the next tick (so it can never raise a second
\* CORE_COLLISION).
C12_HitDissonanceRemoved ==
    [][(build = "harmonic" /\ op'.name = "gameLoop" /\ gameState = PLAYING) =>
        \A i \in 1..Len(dissonances) :
            ~dissonances[i].isActive =>
                \A j \in 1..Len(dissonances') : dissonances'[j].id # dissonances[i].id
      ]_vars

\* C13: a tick processes at most one collision in total: CORE_COLLISION and
\* POWERUP_COLLECTED together are emitted at most once per tick.
C13_OneCollisionPerTick ==
    [][(build = "harmonic" /\ op'.name = "gameLoop") =>
        CountIn(emitted', CORE_COLLISION) + CountIn(emitted', POWERUP_COLLECTED) <= 1
      ]_vars

\* The energy values the core can hold just before the amplifier loop of a
\* tick that started with energy e0: after the decay, and after the hit of the
\* dissonance deactivated in that tick when there was one
energyBeforeAmplifier(e0, cfg, dt, hit, ds) ==
    LET decayed == Max(0, e0 - TruncDiv(cfg.decayRate * dt, 1000))
    IN  IF hit
        THEN { Max(0, decayed - ds[i].disruptionLevel) :
                 i \in { k \in 1..Len(ds) : ~ds[k].isActive } }
        ELSE { decayed }

\* C14: collecting an energy amplifier sets core.energy to
\* min(maxEnergy, energy + value), with value 25 for an energy amplifier.
C14_EnergyAmplifierAddsCapped ==
    [][(build = "harmonic" /\ op'.name = "gameLoop" /\ gameState = PLAYING) =>
        \A j \in 1..Len(amplifiers') :
            (~amplifiers'[j].isActive /\ amplifiers'[j].type = "energy") =>
                /\ amplifiers'[j].value = 25000
                /\ \E e \in energyBeforeAmplifier(core.energy, config, deltaTime',
                              CountIn(emitted', CORE_COLLISION) = 1, dissonances') :
                      core'.energy = Min(core.maxEnergy, e + 25000)
      ]_vars

\* An energy amplifier was collected below the cap: 50.2 became 75.2
C14_EnergyAmplifierBelowCap ==
    /\ build = "harmonic"
    /\ op.name = "gameLoop"
    /\ CountIn(emitted, POWERUP_COLLECTED) = 1
    /\ CountIn(emitted, CORE_COLLISION) = 0
    /\ \E j \in 1..Len(amplifiers) :
          ~amplifiers[j].isActive /\ amplifiers[j].type = "energy"
    /\ core.energy = 75200
    /\ core.maxEnergy = 100000

\* C15: an amplifier is collected at most once: a tick emits one
\* POWERUP_COLLECTED for each amplifier it deactivates (at most one), a
\* deactivated amplifier never becomes active again, and it is gone from the
\* amplifier collection after the next tick.
C15_AmplifierCollectedOnce ==
    [][build = "harmonic" =>
        /\ \A i \in 1..Len(amplifiers) :
              ~amplifiers[i].isActive =>
                 \A j \in 1..Len(amplifiers') :
                    amplifiers'[j].id = amplifiers[i].id =>
                       /\ ~amplifiers'[j].isActive
                       /\ ~(op'.name = "gameLoop" /\ gameState = PLAYING)
        /\ (op'.name = "gameLoop" /\ gameState = PLAYING) =>
              /\ CountIn(emitted', POWERUP_COLLECTED) <= 1
              /\ CountIn(emitted', POWERUP_COLLECTED)
                   = Cardinality({ j \in 1..Len(amplifiers') : ~amplifiers'[j].isActive })
      ]_vars

\* The tick after a collection: the collected amplifier is gone, the ones
\* left are active and nothing was collected in this tick
C15_CollectedAmplifierGone ==
    /\ build = "harmonic"
    /\ op.name = "gameLoop"
    /\ gameState = PLAYING
    /\ gameLog[POWERUP_COLLECTED] = 1
    /\ CountIn(emitted, POWERUP_COLLECTED) = 0
    /\ amplifiers # << >>
    /\ \A j \in 1..Len(amplifiers) : amplifiers[j].isActive

\* C16: a boost reversal scheduled during an earlier game never changes the
\* frequency, the amplitude or the activeEffects of the core of a game that
\* was started afterwards.
C16_StaleReversalHarmless ==
    [][(op'.name = "fireTimeout" /\ Head(timeouts).stale) =>
        /\ core'.frequency = core.frequency
        /\ core'.amplitude = core.amplitude
        /\ core'.activeEffects = core.activeEffects
      ]_vars

\* C17: within one game, the reversal of a boost removes that boost's own
\* contribution only: it lowers the boosted value by the boost's value and
\* takes one tag of its kind out of activeEffects, so that a boost of the same
\* kind that is still running keeps its tag.
C17_ReversalRemovesOwnEffect ==
    [][(op'.name = "fireTimeout" /\ ~Head(timeouts).stale) =>
        /\ core'.frequency + core'.amplitude
             = core.frequency + core.amplitude - Head(timeouts).value
        /\ Len(core'.activeEffects) = Len(core.activeEffects) - 1
        /\ CountIn(core'.activeEffects, Head(timeouts).effect)
             = CountIn(core.activeEffects, Head(timeouts).effect) - 1
      ]_vars

\* C18: while the game is not PLAYING, nothing changes the core or the entity
\* collections until start or resume is called; in particular a boost whose
\* duration runs out during a pause does not expire then.
C18_FrozenOutsidePlaying ==
    [][(build = "harmonic" /\ gameState # PLAYING
          /\ op'.name \notin {"startGame", "togglePause"}) =>
        UNCHANGED << core, dissonances, amplifiers >>
      ]_vars

\* C19: a command that a subscriber issues while it handles an event emitted
\* in the middle of a tick changes nothing of the engine's state before the
\* rest of that tick has run: it is rejected or deferred.
C19_SubscriberCommandDeferred ==
    [][(emitting.event # "none" /\ op'.name # "gameLoop")
       => UNCHANGED << gameState, config, core, dissonances, amplifiers, score,
                       dissonanceSpawnTimer, amplifierSpawnTimer,
                       patternCheckTimer, coreHitCooldown, timeouts >>]_vars

\* C20: in every reachable state of the wave and resonator system no two
\* patterns have the same set of resonator ids.
C20_PatternsDistinct ==
    \A i, j \in 1..Len(patterns) :
        i # j => SeqRange(patterns[i].resonatorIds) # SeqRange(patterns[j].resonatorIds)

\* updateSystem has just found the active connections of one energy type
\* spanning the resonators of a pattern that already existed, and added none
C20_PatternFoundAgain ==
    /\ op.name = "updateSystem"
    /\ CountIn(emitted, PATTERN_COMPLETED) = 0
    /\ \E j \in 1..Len(patterns), e \in {"calm", "vibrant", "intense", "harmonic"} :
         LET OfType(c) == c.isActive /\ c.energyType = e
             conns == SeqFilter(connections, OfType)
         IN  /\ Len(conns) >= 3
             /\ SeqRange(resonatorIdsOf(conns, 1, << >>))
                  = SeqRange(patterns[j].resonatorIds)

\* C21: at all times no two active connections join the same unordered pair
\* of resonators.
C21_NoDuplicateConnections ==
    \A i, j \in 1..Len(connections) :
        (i < j /\ connections[i].isActive /\ connections[j].isActive)
        => SeqRange(connections[i].resonatorIds) # SeqRange(connections[j].resonatorIds)

\* An update in which a second wave has activated again the three resonators
\* a first wave had activated and connected: still one connection per pair
C21_ActivatedAgain ==
    /\ op.name = "updateSystem"
    /\ Len(connections) = 3
    /\ \A i \in 1..Len(connections) : connections[i].isActive
    /\ \E i, j \in 1..Len(harmonicWaves) :
         /\ i # j
         /\ Len(harmonicWaves[i].activatedResonators) = 3
         /\ harmonicWaves[j].activatedResonators = harmonicWaves[i].activatedResonators

\* The resonators of an energy type
resonatorsOfType(e) ==
    { i \in 1..Len(resonators) : resonators[i].energyType = e }

\* A CALM wave is active with its front within the margin of every CALM
\* resonator
calmFrontAtResonators ==
    \E k \in 1..Len(harmonicWaves) :
        /\ harmonicWaves[k].energyType = "calm"
        /\ harmonicWaves[k].isActive
        /\ \A i \in resonatorsOfType("calm") :
             Abs(originDistance(resonators[i], harmonicWaves[k])
                 - harmonicWaves[k].radius) < waveMargin

\* C22: with three CALM resonators in range of a CALM wave, once an update
\* has brought the wave front within the margin of each of them, all three
\* are activated, at least three connections exist among them and exactly
\* one pattern exists, with three resonator ids; every later update leaves
\* that one pattern the only one.
C22_CalmWaveCompletesPattern ==
    /\ (/\ op.name = "updateSystem"
        /\ Cardinality(resonatorsOfType("calm")) = 3
        /\ calmFrontAtResonators)
       => /\ \A i \in resonatorsOfType("calm") : resonators[i].isActivated
          /\ Len(connections) >= 3
    /\ (/\ op.name = "updateSystem"
        /\ Cardinality(resonatorsOfType("calm")) = 3
        /\ \A i \in resonatorsOfType("calm") : resonators[i].isActivated)
       => /\ Len(patterns) = 1
          /\ Len(patterns[1].resonatorIds) = 3
          /\ SeqRange(patterns[1].resonatorIds)
               = { resonators[i].id : i \in resonatorsOfType("calm") }

\* The update that brought the front of a CALM wave to the three CALM
\* resonators, none of which had been activated directly: they are linked to
\* each other and the pattern is there
C22_FrontAtRing ==
    /\ op.name = "updateSystem"
    /\ Cardinality(resonatorsOfType("calm")) = 3
    /\ calmFrontAtResonators
    /\ \E k \in 1..Len(harmonicWaves) :
         Len(harmonicWaves[k].activatedResonators) = 3
    /\ Len(connections) = 3
    /\ Len(patterns) = 1

\* C23: for every wave, its radius after a tick is greater than or equal to
\* its radius before the tick, for every tick until the wave is deactivated.
C23_RadiusNonDecreasing ==
    [][op'.name = "updateSystem"
       => \A i \in 1..Len(harmonicWaves), j \in 1..Len(harmonicWaves') :
            harmonicWaves'[j].id = harmonicWaves[i].id
            => harmonicWaves'[j].radius >= harmonicWaves[i].radius]_vars

\* A wave that has been through two ticks and is still there
C23_WaveGrownTwice ==
    /\ op.name = "updateSystem"
    /\ \E k \in 1..Len(harmonicWaves) :
         harmonicWaves[k].age = 100 /\ harmonicWaves[k].radius = 1000

\* C24: for every wave, activatedResonators after a tick contains its value
\* before the tick and never holds the same resonator id twice.
C24_ActivatedResonatorsGrow ==
    [][op'.name = "updateSystem"
       => \A j \in 1..Len(harmonicWaves') :
            /\ Cardinality(SeqRange(harmonicWaves'[j].activatedResonators))
                 = Len(harmonicWaves'[j].activatedResonators)
            /\ \A i \in 1..Len(harmonicWaves) :
                 harmonicWaves'[j].id = harmonicWaves[i].id
                 => SeqRange(harmonicWaves[i].activatedResonators)
                      \subseteq SeqRange(harmonicWaves'[j].activatedResonators)]_vars

\* A tick has left the front of a wave within the margin of a resonator of
\* the energy type the wave was requested with
C24_FrontStaysInMargin ==
    /\ op.name = "updateSystem"
    /\ \E k \in 1..Len(harmonicWaves), i \in resonatorsOfType("calm") :
         /\ harmonicWaves[k].energyType = "calm"
         /\ harmonicWaves[k].age = 1500
         /\ Abs(originDistance(resonators[i], harmonicWaves[k])
                - harmonicWaves[k].radius) < waveMargin

\* C25: in a game with the default configuration but spawn caps 0 and no
\* input, a tick that does not exhaust the energy spawns nothing, lowers
\* core.energy by exactly decayRate * dt, does not lower the score and
\* leaves the state PLAYING.
C25_QuietTick ==
    [][(/\ op'.name = "gameLoop"
        /\ gameState = PLAYING
        /\ config.maxDissonances = 0
        /\ config.maxAmplifiers = 0
        /\ core.energy * 1000 > config.decayRate * deltaTime')
       => /\ dissonances' = << >>
          /\ amplifiers' = << >>
          /\ core'.energy * 1000 = core.energy * 1000 - config.decayRate * deltaTime'
          /\ score' >= score
          /\ gameState' = PLAYING]_vars

\* After ticks with both spawn timers past their interval nothing has been
\* spawned, the energy has decayed and the score has grown
C25_SpawnDueButCapped ==
    /\ op.name = "gameLoop"
    /\ gameState = PLAYING
    /\ config.maxDissonances = 0
    /\ intervalElapsed(dissonanceSpawnTimer, config.dissonanceRate)
    /\ intervalElapsed(amplifierSpawnTimer, config.amplifierRate)
    /\ dissonances = << >>
    /\ amplifiers = << >>
    /\ core.energy = 98395
    /\ score > 0

\* The entities of `after` whose id none of `before` has
spawnedIn(before, after) ==
    { j \in 1..Len(after) : \A i \in 1..Len(before) : before[i].id # after[j].id }

\* C26: the dissonance and amplifier collections never exceed maxDissonances
\* and maxAmplifiers; a tick spawns at most one entity of each kind, only
\* when that kind's accumulated timer has reached 1/rate, and that timer is
\* then 0.
C26_SpawnWithinCaps ==
    [][/\ Len(dissonances') <= config'.maxDissonances
       /\ Len(amplifiers') <= config'.maxAmplifiers
       /\ (op'.name = "gameLoop" /\ build = "harmonic")
          => /\ Cardinality(spawnedIn(dissonances, dissonances')) <= 1
             /\ Cardinality(spawnedIn(amplifiers, amplifiers')) <= 1
             /\ spawnedIn(dissonances, dissonances') # {}
                => /\ intervalElapsed(dissonanceSpawnTimer + deltaTime',
                                      config.dissonanceRate)
                   /\ dissonanceSpawnTimer' = 0
             /\ spawnedIn(amplifiers, amplifiers') # {}
                => /\ intervalElapsed(amplifierSpawnTimer + deltaTime',
                                      config.amplifierRate)
                   /\ amplifierSpawnTimer' = 0]_vars

\* A tick has left both collections at their cap with both timers past their
\* interval: nothing more was spawned
C26_CapsReached ==
    /\ op.name = "gameLoop"
    /\ gameState = PLAYING
    /\ Len(dissonances) = config.maxDissonances
    /\ Len(amplifiers) = config.maxAmplifiers
    /\ intervalElapsed(dissonanceSpawnTimer, config.dissonanceRate)
    /\ intervalElapsed(amplifierSpawnTimer, config.amplifierRate)

\* The events onPatternCompleted emits for the patterns n + 1 .. m of a game
RECURSIVE patternEvents(_, _)
patternEvents(n, m) ==
    IF n >= m THEN << >>
    ELSE << PATTERN_COMPLETED >>
         \o (IF (n + 1) % 3 = 0 THEN << HARMONY_INCREASED >> ELSE << >>)
         \o patternEvents(n + 1, m)

\* The PATTERN_COMPLETED and HARMONY_INCREASED events of a sequence, in order
RECURSIVE patternEventsOf(_)
patternEventsOf(evs) ==
    IF evs = << >> THEN << >>
    ELSE (IF Head(evs) \in {PATTERN_COMPLETED, HARMONY_INCREASED}
          THEN << Head(evs) >> ELSE << >>)
         \o patternEventsOf(Tail(evs))

\* C27: core.harmonyLevel is 1 + floor(n / 3) for the n patterns recorded in
\* the current game; a PATTERN_COMPLETED that brings n to a multiple of 3 is
\* followed at once by exactly one HARMONY_INCREASED, and there is no other
\* HARMONY_INCREASED.
C27_HarmonyLevelEveryThird ==
    [][/\ core'.harmonyLevel = 1 + (Len(harmonicPatterns') \div 3)
       /\ patternEventsOf(emitted')
            = IF op'.name \in {"updateSystem", "onPatternCompleted"}
              THEN patternEvents(Len(harmonicPatterns), Len(harmonicPatterns'))
              ELSE << >>]_vars

\* The third pattern of a game has just raised the level
C27_ThirdPattern ==
    /\ op.name \in {"updateSystem", "onPatternCompleted"}
    /\ Len(harmonicPatterns) = 3
    /\ core.harmonyLevel = 2
    /\ emitted = << PATTERN_COMPLETED, HARMONY_INCREASED >>

\* C28: reset, invoked in any state, leaves the state MENU, a freshly
\* created default player (energy 100, score 0, level 1) and empty obstacle
\* and power-up collections, and nothing advances until the next start.
C28_ResetToMenu ==
    [][/\ op'.name = "resetGame"
          => /\ gameState' = MENU
             /\ player'.energy = 100000 /\ player'.maxEnergy = 100000
             /\ player'.score = 0
             /\ "level" \in DOMAIN player' /\ player'.level = 1
             /\ player'.vx = 0 /\ player'.vy = 0
             /\ obstacles' = << >>
             /\ powerUps' = << >>
       /\ (build = "legacy" /\ gameState = MENU /\ op'.name # "startGame")
          => UNCHANGED << player, obstacles, powerUps >>]_vars

\* C29: pause followed by resume is a round trip.  The pause and the resume
\* themselves, and everything the clock delivers while the state is PAUSED
\* (ticks, elapsed time, timer callbacks), leave core or player, the entity
\* collections, the score and the configuration as they were just before
\* the pause; the pause leaves PLAYING for PAUSED and the resume returns.
C29_PauseResumeRoundTrip ==
    [][/\ (gameState \in {PLAYING, PAUSED}
           /\ op'.name \in {"togglePause", "pauseGame", "resumeGame"})
          => UNCHANGED << core, dissonances, amplifiers, score, config,
                          player, obstacles, powerUps >>
       /\ (gameState = PLAYING /\ op'.name \in {"togglePause", "pauseGame"})
          => gameState' = PAUSED
       /\ (gameState = PAUSED /\ op'.name \in {"togglePause", "resumeGame"})
          => gameState' = PLAYING
       /\ (gameState = PAUSED
           /\ op'.name \in {"gameLoop", "timePasses", "fireTimeout",
                            "updateState", "loop"})
          => /\ gameState' = PAUSED
             /\ UNCHANGED << core, dissonances, amplifiers, score, config,
                             player, obstacles, powerUps >>]_vars

\* C30: in the Player/Obstacle engine, after any sequence of ticks and player
\* inputs (the empty one included), the player has a zenProgress and it is
\* between 0 and 1.
C30_ZenProgressInRange ==
    build = "legacy"
        => /\ "zenProgress" \in DOMAIN player
           /\ player.zenProgress >= 0
           /\ player.zenProgress <= 1000

\* C31: after every tick the core lies inside the play field with its radius
\* compensated: radius <= position.x <= width - radius and
\* radius <= position.y <= height - radius, whatever impulses and knockbacks
\* have changed its velocity.
C31_CoreInsideField ==
    (build = "harmonic" /\ op.name = "gameLoop")
        => /\ ~IsNaN(core.px) /\ ~IsNaN(core.py)
           /\ core.radius <= core.px /\ core.px <= config.width - core.radius
           /\ core.radius <= core.py /\ core.py <= config.height - core.radius

\* The resonator r has the energy type the wave w was generated for
waveMeantFor(w, r) == w.energyType = r.energyType

\* C32: for any tick length, whenever an active wave's radius goes from below
\* to above the distance of a resonator of the wave's energy type (within
\* maxRadius and maxLifeTime), that resonator is activated by the wave.
C32_FrontActivatesMatching ==
    [][op'.name = "updateSystem"
       => \A i \in 1..Len(harmonicWaves) : \A j \in 1..Len(harmonicWaves') :
          \A k \in 1..Len(resonators) :
            ( /\ harmonicWaves'[j].id = harmonicWaves[i].id
              /\ harmonicWaves[i].isActive
              /\ harmonicWaves'[j].isActive
              /\ waveMeantFor(harmonicWaves[i], resonators[k])
              /\ harmonicWaves[i].radius < originDistance(resonators[k], harmonicWaves[i])
              /\ harmonicWaves'[j].radius > originDistance(resonators[k], harmonicWaves[i]) )
            => /\ resonators'[k].isActivated
               /\ SeqContains(harmonicWaves'[j].activatedResonators,
                              resonators[k].id)]_vars

\* The active connections of energy type e that join resonators a and b
connectionsBetween(a, b, e) ==
    { c \in 1..Len(connections) :
        /\ connections[c].isActive
        /\ connections[c].energyType = e
        /\ { connections[c].resonatorIds[i] :
               i \in 1..Len(connections[c].resonatorIds) } = { a, b } }

\* C33: after every system update, for each energy type the active
\* connections are exactly the unordered pairs of distinct activated
\* resonators of that type: every two co-activated same-energy resonators are
\* connected, and every connection joins two distinct, existing, activated
\* resonators of the connection's energy type.
C33_ConnectionsAreActivatedPairs ==
    (build = "harmonic" /\ op.name = "updateSystem")
    => /\ \A i, j \in 1..Len(resonators) :
            ( /\ i < j
              /\ resonators[i].isActivated /\ resonators[j].isActivated
              /\ resonators[i].energyType = resonators[j].energyType )
            => Cardinality(connectionsBetween(resonators[i].id, resonators[j].id,
                                              resonators[i].energyType)) = 1
       /\ \A c \in 1..Len(connections) :
            connections[c].isActive
            => \E i, j \in 1..Len(resonators) :
                 /\ i # j
                 /\ resonators[i].id # resonators[j].id
                 /\ connections[c].resonatorIds
                       \in { << resonators[i].id, resonators[j].id >> }
                 /\ resonators[i].isActivated /\ resonators[j].isActivated
                 /\ resonators[i].energyType = connections[c].energyType
                 /\ resonators[j].energyType = connections[c].energyType

\* An update after two pairs of resonators were activated, one pair of each
\* of two energy types: two connections, one per type
C33_TwoTypesConnected ==
    /\ op.name = "updateSystem"
    /\ Len(connections) = 2
    /\ connections[1].energyType # connections[2].energyType
    /\ Cardinality({ k \in 1..Len(resonators) : resonators[k].isActivated }) = 4

\* C34: every generated wave is removed after finitely many system updates
\* with dt > 0: a wave that an update keeps is within its limits (radius <=
\* maxRadius, age < maxLifeTime) and older than before the update, so its
\* lifetime bounds the number of updates it can stay for; and a wave activates
\* no resonator on or after the update that removes it: every resonator an
\* update activates is listed by a wave the update keeps.
C34_WaveEventuallyRemoved ==
    [][op'.name = "updateSystem"
       => /\ \A k \in 1..Len(harmonicWaves') :
                /\ harmonicWaves'[k].radius <= harmonicWaves'[k].maxRadius
                /\ harmonicWaves'[k].age < harmonicWaves'[k].maxLifeTime
          /\ \A i \in 1..Len(harmonicWaves) : \A j \in 1..Len(harmonicWaves') :
                harmonicWaves'[j].id = harmonicWaves[i].id
                => /\ harmonicWaves'[j].age > harmonicWaves[i].age
                   /\ harmonicWaves'[j].maxLifeTime = harmonicWaves[i].maxLifeTime
          /\ \A r \in 1..Len(resonators) :
                (~resonators[r].isActivated /\ resonators'[r].isActivated)
                => \E k \in 1..Len(harmonicWaves') :
                      SeqContains(harmonicWaves'[k].activatedResonators,
                                  resonators[r].id)]_vars

\* The part of C34 about the removal alone
C34_RemovalOnly ==
    [][op'.name = "updateSystem"
       => /\ \A k \in 1..Len(harmonicWaves') :
                /\ harmonicWaves'[k].radius <= harmonicWaves'[k].maxRadius
                /\ harmonicWaves'[k].age < harmonicWaves'[k].maxLifeTime
          /\ \A i \in 1..Len(harmonicWaves) : \A j \in 1..Len(harmonicWaves') :
                harmonicWaves'[j].id = harmonicWaves[i].id
                => /\ harmonicWaves'[j].age > harmonicWaves[i].age
                   /\ harmonicWaves'[j].maxLifeTime = harmonicWaves[i].maxLifeTime]_vars

\* C35: in the Player/Obstacle engine, when a tick leaves the player with
\* energy > 0 and zenProgress >= 1.0 (the zen centre reached), the game state
\* after that tick is VICTORY.
C35_CentreReachedIsVictory ==
    [][( /\ build = "legacy"
         /\ op'.name \in {"updateState", "loop"}
         /\ gameState = PLAYING
         /\ player'.energy > 0
         /\ player'.zenProgress >= 1000 )
       => gameState' = VICTORY]_vars

\* The events of evs that follow its first GAME_ENDED
afterGameEnded(evs) ==
    { evs[j] : j \in { j \in 1..Len(evs) :
                         \E i \in 1..(j - 1) : evs[i] = GAME_ENDED } }

\* C36: once GAME_ENDED has been emitted for a game, no CORE_COLLISION or
\* POWERUP_COLLECTED event is emitted, no entity is spawned and the score does
\* not change until the next GAME_STARTED; in particular the steps of a tick
\* that follow an energy-depletion game over have no effect.
C36_NothingAfterGameEnded ==
    [][build = "harmonic"
       => /\ (gameState = GAME_OVER /\ op'.name # "startGame")
             => /\ CORE_COLLISION \notin { emitted'[i] : i \in 1..Len(emitted') }
                /\ POWERUP_COLLECTED \notin { emitted'[i] : i \in 1..Len(emitted') }
                /\ score' = score
                /\ spawnedIn(dissonances, dissonances') = {}
                /\ spawnedIn(amplifiers, amplifiers') = {}
          /\ (op'.name = "gameLoop" /\ gameState = PLAYING)
             => /\ CORE_COLLISION \notin afterGameEnded(emitted')
                /\ POWERUP_COLLECTED \notin afterGameEnded(emitted')
          /\ ( /\ op'.name = "gameLoop" /\ gameState = PLAYING
               /\ Len(emitted') >= 2
               /\ emitted'[1] = ENERGY_DEPLETED /\ emitted'[2] = GAME_ENDED )
             => /\ score' = score
                /\ spawnedIn(dissonances, dissonances') = {}
                /\ spawnedIn(amplifiers, amplifiers') = {}]_vars

\* C37: in the Player/Obstacle engine at most one game-loop callback chain is
\* scheduled at any time, so the simulation advances at most once per
\* animation frame; this holds for every interleaving of startGame, pauseGame,
\* resumeGame, resetGame and an endGame triggered from inside a running loop
\* iteration followed by a start before the next frame.
C37_OneLoopChain ==
    build = "legacy" => Cardinality(pendingFrames) <= 1

\* C38: every game starts from the same engine state regardless of what
\* happened in earlier games: immediately after an accepted start, the
\* collision cooldown is 0 and both spawn timers are 0.
C38_StartResetsTimers ==
    [][( /\ build = "harmonic"
         /\ op'.name = "startGame"
         /\ ~startRejected(gameState) )
       => /\ coreHitCooldown' = 0
          /\ dissonanceSpawnTimer' = 0
          /\ amplifierSpawnTimer' = 0]_vars

\* C39: a GAME_STARTED event is emitted exactly once per accepted start
\* command and only when the state has just become PLAYING; no GAME_STARTED is
\* emitted while the state is MENU (service construction, reset).
C39_GameStartedOnlyOnStart ==
    [][LET accepted == op'.name = "startGame" /\ gameState # PLAYING
       IN  /\ CountIn(emitted', GAME_STARTED) = IF accepted THEN 1 ELSE 0
           /\ CountIn(emitted', GAME_STARTED) > 0 => gameState' = PLAYING]_vars

=============================================================================
